---- MODULE Spec2Model ----
(***************************************************************************)
(* Orchestration pipeline of the staff scheduler                           *)
(* (src/orchestrator-service/app.py).                                      *)
(*                                                                         *)
(* Encoding of the Python values:                                          *)
(*   - a dict is a function from its keys (strings) to its values; a key   *)
(*     that is absent from the dict is absent from the DOMAIN;             *)
(*   - a list is a sequence;                                               *)
(*   - None in a string-typed position (a date, a name, an id) is NoneVal; *)
(*   - a JSON number in an id position is one of NumericIds;               *)
(*   - hours are integers.                                                 *)
(***************************************************************************)
EXTENDS Integers, Sequences, FiniteSets, TLC

\* ------------------------------------------------------------------ bounds
\* longest availability / matches list handed to a stage function
MaxLen == 2
\* number of requests the server receives
MaxReq == 2
\* longest batch handed to the Assignment Writer
MaxBatch == 3
\* the largest day number of the date mentions the Command Parser is given
MaxDay == 32

\* ------------------------------------------------------- value encoding
NoneVal == "None"
\* ids the backend sent as JSON numbers instead of strings
NumericIds == {"#7"}

\* Python truthiness of a string-typed value: None and "" are falsy
Truthy(v) == v # NoneVal /\ v # ""

\* dict.get(key, default)
Get(d, key, default) == IF key \in DOMAIN d THEN d[key] ELSE default

\* context.update(res): the keys of res overwrite, no key is removed
Update(context, res) ==
  [k \in DOMAIN context \cup DOMAIN res |->
     IF k \in DOMAIN res THEN res[k] ELSE context[k]]

\* all sequences over S of length 0..n
SeqUpTo(S, n) == UNION {[1..k -> S] : k \in 0..n}

\* ----------------------------------------------------- stage functions
\* one Match of the baseline policy
ShiftMatchOfMut(entry, date) ==
  LET base == [staffId |-> Get(entry, "staffId", NoneVal),
               assignedHours |-> Get(entry, "assignedHours", 0)]
      named == IF "staffName" \in DOMAIN entry
                 THEN base @@ [staffName |-> entry.staffName] ELSE base
  IN IF date # NoneVal THEN named @@ [date |-> date] ELSE named
ShiftMatchOf(entry, date) ==
  LET base == [staffId |-> Get(entry, "staffId", NoneVal),
               assignedHours |-> Get(entry, "availableHours", 0)]
      named == IF "staffName" \in DOMAIN entry
                 THEN base @@ [staffName |-> entry.staffName] ELSE base
  IN IF date # NoneVal THEN named @@ [date |-> date] ELSE named

\* ShiftMatcher, baseline policy
shift_logic(context) ==
  LET availability == Get(context, "availability", <<>>)
      date == Get(context, "date", NoneVal)
  IN [matches |-> [i \in 1..Len(availability) |->
                     ShiftMatchOf(availability[i], date)]]

\* f"{hours}" of match.get('assignedHours')
HoursText(match) ==
  IF "assignedHours" \in DOMAIN match THEN ToString(match.assignedHours)
                                      ELSE NoneVal

\* one Notification
NotificationOf(context, match) ==
  LET staff_id == Get(match, "staffId", NoneVal)
      staff_name == Get(match, "staffName", staff_id)
      date == Get(context, "date", NoneVal)
      message == staff_name \o " assigned " \o HoursText(match)
                   \o " hours on " \o date
      notif == [staffId |-> staff_id, staffName |-> staff_name,
                date |-> date, message |-> message]
  IN IF "assignedHours" \in DOMAIN match
       THEN notif @@ [assignedHours |-> match.assignedHours]
       ELSE notif @@ [assignedHours |-> NoneVal]

\* Notifier
notifier_logic_mut(context) == [notification |-> <<>>]
notifier_logic(context) ==
  LET matches == Get(context, "matches", <<>>)
  IN [notifications |-> [i \in 1..Len(matches) |->
                           NotificationOf(context, matches[i])]]

\* the predicate of the ConflictResolver's filter
KeepsMatchMut(match) == Get(match, "assignedHours", 0) >= 0
KeepsMatch(match) == Get(match, "assignedHours", 0) > 0

\* ConflictResolver
conflict_resolver_logic_mut(context) ==
  LET matches == Get(context, "matches", <<>>)
      kept == SelectSeq(matches, KeepsMatch)
  IN [resolvedMatches |-> IF kept = <<>> THEN kept ELSE Tail(kept)]
conflict_resolver_logic(context) ==
  LET matches == Get(context, "matches", <<>>)
  IN [resolvedMatches |-> SelectSeq(matches, KeepsMatch)]

\* ------------------------------------------------------ the backend's data
D1 == "2025-05-21"
D2 == "2025-05-22"
\* datetime.now().strftime("%Y-%m-%d")
Today == "2025-05-20"

\* GET /api/staff
StaffData ==
  << [id |-> "s1", name |-> "Alice Smith", department |-> "Engineering"],
     [id |-> "s2", name |-> "Bob Jones", department |-> "Design"],
     [id |-> "#7", name |-> "Zed Young", department |-> "Design"] >>
\* GET /api/projects
ProjectData ==
  << [id |-> "p1", name |-> "Merrin"], [id |-> "p2", name |-> "Vanguard"] >>
\* GET /api/availability?date=
AvailabilityData(date) ==
  IF date = D1
    THEN << [staffId |-> "s1", staffName |-> "Alice Smith",
             assignedHours |-> 2, availableHours |-> 6],
            [staffId |-> "s2", assignedHours |-> 8, availableHours |-> 0] >>
    ELSE <<>>

\* str.lower() of the names in use, as character sequences
LowerChars ==
     ("Alice Smith" :> <<"a", "l", "i", "c", "e", " ", "s", "m", "i", "t", "h">>)
  @@ ("Bob Jones" :> <<"b", "o", "b", " ", "j", "o", "n", "e", "s">>)
  @@ ("Zed Young" :> <<"z", "e", "d", " ", "y", "o", "u", "n", "g">>)
  @@ ("Merrin" :> <<"m", "e", "r", "r", "i", "n">>)
  @@ ("Vanguard" :> <<"v", "a", "n", "g", "u", "a", "r", "d">>)
  @@ ("Engineering" :> <<"e", "n", "g", "i", "n", "e", "e", "r", "i", "n", "g">>)
  @@ ("Design" :> <<"d", "e", "s", "i", "g", "n">>)
  @@ ("Carol" :> <<"c", "a", "r", "o", "l">>)
  @@ ("Carol Danvers" :>
        <<"c", "a", "r", "o", "l", " ", "d", "a", "n", "v", "e", "r", "s">>)
  @@ ("Atlas" :> <<"a", "t", "l", "a", "s">>)
  @@ ("Alice" :> <<"a", "l", "i", "c", "e">>)
  @@ ("Alice Smithson" :>
        <<"a", "l", "i", "c", "e", " ", "s", "m", "i", "t", "h", "s", "o", "n">>)
  @@ ("the design" :> <<"t", "h", "e", " ", "d", "e", "s", "i", "g", "n">>)
  @@ ("design" :> <<"d", "e", "s", "i", "g", "n">>)
  @@ ("merrin" :> <<"m", "e", "r", "r", "i", "n">>)
  @@ ("vanguard" :> <<"v", "a", "n", "g", "u", "a", "r", "d">>)
  @@ ("" :> <<>>)
Lower(name) == LowerChars[name]

\* Python's `needle in hay` on strings
Contains(hay, needle) ==
  \E i \in 0..(Len(hay) - Len(needle)) :
    SubSeq(hay, i + 1, i + Len(needle)) = needle

\* the two-way substring test of the name lookups
NameMatches(requested, entity_name) ==
  \/ Contains(Lower(entity_name), Lower(requested))
  \/ Contains(Lower(requested), Lower(entity_name))

\* ------------------------------------------------------------ the queries
\* What the regular expressions of enhanced_stub_orchestrator and of
\* enhanced_shift_logic extract from each query text.
QueryParse ==
     ("" :>
        [date |-> NoneVal, requested_staff |-> <<>>,
         requested_departments |-> <<>>, requested_projects |-> <<>>,
         hours |-> <<>>, project_hours |-> <<>>])
  @@ ("book Alice Smith on project Merrin for 4 hrs and project Vanguard for 2 hrs" :>
        [date |-> NoneVal, requested_staff |-> <<"Alice Smith">>,
         requested_departments |-> <<>>,
         requested_projects |-> <<"Merrin", "Vanguard">>,
         hours |-> <<4>>,
         project_hours |-> ("Merrin" :> 4) @@ ("Vanguard" :> 2)])
  @@ ("book Alice Smith on project Merrin for 0 hrs" :>
        [date |-> NoneVal, requested_staff |-> <<"Alice Smith">>,
         requested_departments |-> <<>>, requested_projects |-> <<"Merrin">>,
         hours |-> <<0>>, project_hours |-> ("Merrin" :> 0)])
  @@ ("book Zed Young and book Alice Smith on project Merrin for 4 hrs" :>
        [date |-> NoneVal, requested_staff |-> <<"Zed Young", "Alice Smith">>,
         requested_departments |-> <<>>, requested_projects |-> <<"Merrin">>,
         hours |-> <<4>>, project_hours |-> ("Merrin" :> 4)])
  @@ ("book Alice, book Alice Smith on project Merrin for 4 hrs" :>
        [date |-> NoneVal, requested_staff |-> <<"Alice", "Alice Smith">>,
         requested_departments |-> <<>>, requested_projects |-> <<"Merrin">>,
         hours |-> <<4>>, project_hours |-> ("Merrin" :> 4)])
  @@ ("book Alice Smith on project merrin for 4 hrs and project vanguard for 2 hrs" :>
        [date |-> NoneVal, requested_staff |-> <<"Alice Smith">>,
         requested_departments |-> <<>>,
         requested_projects |-> <<"merrin", "vanguard">>,
         hours |-> <<4>>,
         project_hours |-> ("merrin" :> 4) @@ ("vanguard" :> 2)])
  @@ ("book the design department on project Merrin for 3 hours" :>
        [date |-> NoneVal, requested_staff |-> <<"the design">>,
         requested_departments |-> <<"design">>,
         requested_projects |-> <<"Merrin">>,
         hours |-> <<3>>, project_hours |-> ("Merrin" :> 3)])
  @@ ("hello" :>
        [date |-> NoneVal, requested_staff |-> <<>>,
         requested_departments |-> <<>>, requested_projects |-> <<>>,
         hours |-> <<>>, project_hours |-> <<>>])
  @@ ("Is Alice Smith on any project" :>
        [date |-> NoneVal, requested_staff |-> <<>>,
         requested_departments |-> <<>>, requested_projects |-> <<>>,
         hours |-> <<>>, project_hours |-> <<>>])
Queries == DOMAIN QueryParse

\* the context enhanced_stub_orchestrator builds from the payload
InitialContext(payload) ==
  LET query == IF Truthy(payload.query) THEN payload.query ELSE ""
      parsed == QueryParse[query]
      given == IF Truthy(payload.date) THEN payload.date ELSE Today
  IN [date |-> IF parsed.date # NoneVal THEN parsed.date ELSE given,
      query |-> query,
      requested_staff |-> parsed.requested_staff,
      requested_departments |-> parsed.requested_departments,
      requested_projects |-> parsed.requested_projects,
      requested_hours |-> IF parsed.hours # <<>> THEN parsed.hours[1] ELSE 8]

\* ------------------------------------------------------ enhanced ShiftMatch
\* index of the first entity whose name matches, 0 when none does
FirstMatch(requested, data) ==
  LET hits == {i \in 1..Len(data) : NameMatches(requested, data[i].name)}
  IN IF hits = {} THEN 0 ELSE CHOOSE i \in hits : \A j \in hits : i <= j

\* the ids of the first match of each requested name, in request order
RECURSIVE ResolveNames(_, _)
ResolveNames(requested, data) ==
  IF requested = <<>> THEN <<>>
  ELSE LET hit == FirstMatch(Head(requested), data)
           rest == ResolveNames(Tail(requested), data)
       IN IF hit = 0 THEN rest ELSE <<data[hit].id>> \o rest

InSeq(x, s) == \E i \in 1..Len(s) : s[i] = x

\* the staff of one department that are not targeted yet, appended
RECURSIVE AddDepartment(_, _, _)
AddDepartment(target, dept, staff) ==
  IF staff = <<>> THEN target
  ELSE LET s == Head(staff)
           hit == Contains(Lower(s.department), Lower(dept))
       IN AddDepartment(
            IF hit /\ ~InSeq(s.id, target) THEN Append(target, s.id) ELSE target,
            dept, Tail(staff))

RECURSIVE AddDepartments(_, _, _)
AddDepartments(target, depts, staff) ==
  IF depts = <<>> THEN target
  ELSE AddDepartments(AddDepartment(target, Head(depts), staff),
                      Tail(depts), staff)

\* next((e["name"] for e in data if e["id"] == id), id)
NameOfId(id, data) ==
  LET hits == {i \in 1..Len(data) : data[i].id = id}
  IN IF hits = {} THEN id
     ELSE data[CHOOSE i \in hits : \A j \in hits : i <= j].name

enhanced_shift_logic(context, staff_data, project_data) ==
  LET availability == Get(context, "availability", <<>>)
      date == Get(context, "date", NoneVal)
      requested_staff == Get(context, "requested_staff", <<>>)
      requested_departments == Get(context, "requested_departments", <<>>)
      requested_projects == Get(context, "requested_projects", <<>>)
      requested_hours == Get(context, "requested_hours", 8)
      target_staff_ids ==
        AddDepartments(ResolveNames(requested_staff, staff_data),
                       requested_departments, staff_data)
      target_project_ids == ResolveNames(requested_projects, project_data)
      project_hours == QueryParse[Get(context, "query", "")].project_hours
      ns == Len(target_staff_ids)
      np == Len(target_project_ids)
      Pair(k) ==
        LET staff_id == target_staff_ids[((k - 1) \div np) + 1]
            project_id == target_project_ids[((k - 1) % np) + 1]
            project_name == NameOfId(project_id, project_data)
        IN [staffId |-> staff_id,
            staffName |-> NameOfId(staff_id, staff_data),
            projectId |-> project_id,
            projectName |-> project_name,
            assignedHours |-> Get(project_hours, project_name, requested_hours),
            date |-> date]
      Fallback(entry) ==
        LET base == [staffId |-> Get(entry, "staffId", NoneVal),
                     assignedHours |-> Get(entry, "availableHours", 0)]
            named == IF "staffName" \in DOMAIN entry
                       THEN base @@ [staffName |-> entry.staffName] ELSE base
        IN IF Truthy(date) THEN named @@ [date |-> date] ELSE named
  IN IF ns > 0 /\ np > 0
       THEN [matches |-> [k \in 1..(ns * np) |-> Pair(k)]]
     ELSE IF requested_staff = <<>> /\ requested_departments = <<>>
       THEN [matches |-> [i \in 1..Len(availability) |->
                            Fallback(availability[i])]]
     ELSE [matches |-> <<>>]

\* ------------------------------------------------------------- AuditLogger
\* the context holds the global list itself under 'auditLog', not a copy
LogRef == "<orchestrator.memory['auditLog']>"

\* entry = dict(context); entry['timestamp'] = utcnow
AuditEntry(context, now) == Update(context, [timestamp |-> now])

\* orchestrator.memory.setdefault('auditLog', []).append(entry)
AppendAuditMut(log, entry) == <<entry>>
AppendAudit(log, entry) == Append(log, entry)

\* what a context is worth when read: the alias followed
DerefMut(context, log) ==
  [k \in DOMAIN context |->
     IF k = "auditLog" /\ context[k] = LogRef
       THEN <<log[Len(log)]>> ELSE context[k]]
Deref(context, log) ==
  [k \in DOMAIN context |->
     IF k = "auditLog" /\ context[k] = LogRef THEN log ELSE context[k]]

\* ------------------------------------------------------- Output Validator
RequiredKeys ==
  {"availability", "matches", "notifications", "resolvedMatches", "auditLog"}

\* TRUE when validate_pipeline_output(result) returns, FALSE when it raises
validate_pipeline_output(result) ==
  IF "error" \in DOMAIN result THEN TRUE
  ELSE IF "response" \in DOMAIN result \/ "content" \in DOMAIN result THEN TRUE
  ELSE IF {"USE_CREW", "queryIntent", "data", "parsed"} \cap DOMAIN result # {}
    THEN TRUE
  ELSE IF ~(RequiredKeys \subseteq DOMAIN result) THEN FALSE
  ELSE \A i \in 1..Len(result.resolvedMatches) :
         {"staffId", "assignedHours"} \subseteq DOMAIN result.resolvedMatches[i]

\* required_keys, in the order of the list
RequiredKeyOrder ==
  <<"availability", "matches", "notifications", "resolvedMatches",
    "auditLog">>

\* the keys that let a result through without the schedule-mode checks
PassKeys ==
  {"error", "response", "content", "USE_CREW", "queryIntent", "data",
   "parsed"}

\* missing = [key for key in required_keys if key not in result]
MissingKeysMut(result) ==
  LET Missing(key) == key \notin DOMAIN result /\ key # "auditLog"
  IN SelectSeq(RequiredKeyOrder, Missing)
MissingKeys(result) ==
  LET Missing(key) == key \notin DOMAIN result
  IN SelectSeq(RequiredKeyOrder, Missing)

\* the elements of resolvedMatches without staffId or assignedHours
BadMatches(result) ==
  LET Bad(match) == ~({"staffId", "assignedHours"} \subseteq DOMAIN match)
  IN SelectSeq(result.resolvedMatches, Bad)

\* what a call validate_pipeline_output(result) does: what it returns, or
\* the HTTPException it raises
ValidatorOutcome(result) ==
  IF PassKeys \cap DOMAIN result # {}
    THEN [raised |-> FALSE, value |-> NoneVal]
  ELSE IF MissingKeys(result) # <<>>
    THEN [raised |-> TRUE, status |-> 500,
          detail |-> [text |-> "Pipeline output missing keys",
                      names |-> MissingKeys(result)]]
  ELSE IF BadMatches(result) # <<>>
    THEN [raised |-> TRUE, status |-> 500,
          detail |-> [text |-> "Match missing required fields",
                      match |-> BadMatches(result)[1]]]
  ELSE [raised |-> FALSE, value |-> result]

\* ------------------------------------------------------- Assignment Writer
\* the condition under which orchestrate adds the background task
ScheduleConditionMut(mode, result) ==
  mode = "command" /\ Get(result, "resolvedMatches", <<>>) # <<>>
ScheduleConditionAnyMode(mode, result) ==
  \/ Get(result, "resolvedMatches", <<>>) # <<>>
  \/ Get(result, "matches", <<>>) # <<>>
ScheduleCondition(mode, result) ==
  /\ mode = "command"
  /\ \/ Get(result, "resolvedMatches", <<>>) # <<>>
     \/ Get(result, "matches", <<>>) # <<>>

\* the list process_assignments works through
BatchOf(result) ==
  IF Get(result, "resolvedMatches", <<>>) # <<>>
    THEN result.resolvedMatches
    ELSE Get(result, "matches", <<>>)

\* staff_id[:8] / project_id[:8] of the progress print: a truthy value that
\* is no string cannot be sliced
PrintRaises(match) ==
  \/ Get(match, "staffId", NoneVal) \in NumericIds
  \/ Get(match, "projectId", NoneVal) \in NumericIds

\* if not staff_id or not project_id or not date or assigned_hours <= 0
IsSkipped(match) ==
  \/ ~Truthy(Get(match, "staffId", NoneVal))
  \/ ~Truthy(Get(match, "projectId", NoneVal))
  \/ ~Truthy(Get(match, "date", NoneVal))
  \/ Get(match, "assignedHours", 0) <= 0

assignment_data(match) ==
  [staffId |-> match.staffId, projectId |-> match.projectId,
   date |-> match.date, hours |-> match.assignedHours]

\* where the writer goes after a create call raised: the except clause inside
\* the loop catches it and the loop goes on
OnCreateErrorMut == "aborted"
OnCreateError == "loop"

\* what an exception in process_assignments does to the response of the
\* request: both except clauses only print
WriterFailureMut(resp) == [status |-> "500"]
WriterFailure(resp) == resp

\* ------------------------------------------------------------------- state
Req == 1..MaxReq
\* the session ids in use
Sessions == {"default", "sA"}

VARIABLES
  pc,         \* where each request's handler is
  payload,    \* what each request was called with
  context,    \* the Context of each request
  response,   \* what each request answered
  scheduled,  \* process_assignments added to the request's background tasks
  loop,       \* the request whose coroutine the event loop is running, 0: none
  auditLog,   \* orchestrator.memory['auditLog']
  clock,      \* datetime.utcnow()
  audited,    \* the contexts audit_logger_logic was called with, in call order
  wpc,        \* where each request's process_assignments is
  wmatches,   \* its matches
  widx,       \* the index of the match its loop is at
  calls,      \* the create_assignments calls it issued, with their outcome
  created,    \* its assignments_created
  fnCtx,      \* the context a stage function is called on directly
  fnOut,      \* what it returned
  fnOp,       \* which one it was
  ask_memory  \* the conversation history of each session

pipeVars == <<pc, payload, context, response, scheduled, loop, auditLog,
              clock, audited>>
writerVars == <<wpc, wmatches, widx, calls, created>>
fnVars == <<fnCtx, fnOut, fnOp>>
askVars == <<ask_memory>>
vars == <<pipeVars, writerVars, fnVars, askVars>>

Absent == <<>>
Opt(key, values) == {Absent} \cup {(key :> v) : v \in values}

\* -------------------------------------------------------------- the stages
\* the order of the awaits of _StubOrchestrator.run
run_stages ==
  <<"availability", "shift", "notify", "conflict", "audit">>
\* the order of the awaits of enhanced_stub_orchestrator
enhanced_stages_mut ==
  <<"availability", "shift", "conflict", "notify", "audit">>
enhanced_stages ==
  <<"availability", "shift", "notify", "conflict", "audit">>

StagesOf(r) ==
  IF payload[r].via = "run" THEN run_stages ELSE enhanced_stages

\* the stage that follows `stage`, "return" after the last one
StageAfter(stages, stage) ==
  LET i == CHOOSE k \in 1..Len(stages) : stages[k] = stage
  IN IF i = Len(stages) THEN "return" ELSE stages[i + 1]

\* context.update(res) and on to the next await of the pipeline
Merge(r, stage, res) ==
  /\ context' = [context EXCEPT ![r] = Update(@, res)]
  /\ pc' = [pc EXCEPT ![r] = StageAfter(StagesOf(r), stage)]

\* an exception leaves the handler: orchestrate turns it into a 500, a caller
\* of _StubOrchestrator.run sees it raised
FailMut(r) ==
  /\ pc' = [pc EXCEPT ![r] = "failed"]
  /\ response' = [response EXCEPT ![r] = [status |-> "200"]]
  /\ loop' = 0
Fail(r) ==
  /\ pc' = [pc EXCEPT ![r] = "failed"]
  /\ response' = [response EXCEPT ![r] =
       [status |-> IF payload[r].via = "run" THEN "raised" ELSE "500"]]
  /\ loop' = 0

\* ------------------------------------------------------------ ask mode
\* GET /api/assignments
AssignmentData ==
  << [staffId |-> "s1", projectId |-> "p1", date |-> D1, hours |-> 4] >>

\* What the regular expressions of the direct question path extract from
\* each question: which pattern applies, the name in title case, the dates.
AskParse ==
     ("Is Alice Smith on any project on May 21st" :>
        [kind |-> "is", name |-> "Alice Smith", dates |-> <<D1>>])
  @@ ("Is Bob Jones on any project on May 21st" :>
        [kind |-> "is", name |-> "Bob Jones", dates |-> <<D1>>])
  @@ ("Is Carol on any project on May 21st" :>
        [kind |-> "is", name |-> "Carol", dates |-> <<D1>>])
  @@ ("How many hrs is Alice Smith working on May 21st" :>
        [kind |-> "hours", name |-> "Alice Smith", dates |-> <<D1>>])
  @@ ("How many hrs is Alice Smith working on vacation" :>
        [kind |-> "hours", name |-> "Alice Smith", dates |-> <<>>])
  @@ ("Is Alice Smith on any project" :>
        [kind |-> "none", name |-> "", dates |-> <<>>])
  @@ ("hello" :> [kind |-> "none", name |-> "", dates |-> <<>>])

\* the body as the OrchestrationInput model reads it: the fields that the
\* body leaves out take their defaults
OrchestrationInput(body) ==
  body @@ [date |-> NoneVal, query |-> NoneVal, mode |-> "ask"]

\* the question of an ask request: the last message, else the query
UserQuery(p) ==
  LET messages == Get(p, "messages", NoneVal)
  IN IF p.mode = "ask" /\ messages # NoneVal /\ messages # <<>>
       THEN messages[Len(messages)]
     ELSE IF p.mode = "ask" /\ Truthy(Get(p, "query", NoneVal))
       THEN p.query
     ELSE ""

\* which branch of orchestrate serves the request: the direct question
\* path, the crew (use_crew), or the stage pipeline
RouteMut(p) ==
  IF p.mode = "ask" /\ UserQuery(p) # ""
       /\ AskParse[UserQuery(p)].kind # "none"
    THEN "direct"
    ELSE "pipeline"
Route(p) ==
  IF p.mode = "ask" /\ UserQuery(p) # ""
       /\ AskParse[UserQuery(p)].kind # "none"
    THEN "direct"
  ELSE IF p.mode = "ask" THEN "crew"
  ELSE "pipeline"

\* request.headers.get("x-session-id", "default")
SessionOf(p) == Get(p, "session", "default")

\* what crew.kickoff() comes back with, once parsed
CrewResults ==
  { [response |-> "an answer"], [content |-> "some content"],
    [data |-> "some data"],
    [matches |-> <<[staffId |-> "s1", projectId |-> "p1",
                    assignedHours |-> 4, date |-> D1]>>] }

\* result.get("response") or result.get("content") or json.dumps(result)
AnswerText(result) ==
  IF Truthy(Get(result, "response", NoneVal)) THEN result.response
  ELSE IF Truthy(Get(result, "content", NoneVal)) THEN result.content
  ELSE [json |-> result]

\* the ConversationTurn saved for a crew answer
TurnOf(p, result, now) ==
  [query |-> Get(p, "query", NoneVal), answer |-> AnswerText(result),
   timestamp |-> now]

\* ask_memory[session_id].append(turn)
SaveTurnMut(memory, session, turn) ==
  [memory EXCEPT ![session] = <<turn>>]
SaveTurn(memory, session, turn) ==
  [memory EXCEPT ![session] = Append(@, turn)]

RECURSIVE SumHours(_)
SumHours(assignments) ==
  IF assignments = <<>> THEN 0
  ELSE Get(Head(assignments), "hours", 0) + SumHours(Tail(assignments))

\* the names of the projects of the assignments, in the projects' order
ProjectNames(assignments, projects) ==
  LET Named(p) == \E i \in 1..Len(assignments) :
                    assignments[i].projectId = p.id
      kept == SelectSeq(projects, Named)
  IN [i \in 1..Len(kept) |-> kept[i].name]

\* a return {"content": ..., "type": ...} of the handler
Answer(r, content, type) ==
  /\ pc' = [pc EXCEPT ![r] = "done"]
  /\ response' = [response EXCEPT ![r] =
       [status |-> "200", body |-> [content |-> content, type |-> type]]]

\* the bodies POST /orchestrate is called with, for the modes that take
\* the stage pipeline
Payloads ==
  { [mode |-> "command", date |-> NoneVal,
     query |-> "book Alice Smith on project Merrin for 4 hrs and project Vanguard for 2 hrs"],
    [mode |-> "command", date |-> D1,
     query |-> "book Alice Smith on project Merrin for 0 hrs"],
    [mode |-> "command", date |-> NoneVal,
     query |-> "book Zed Young and book Alice Smith on project Merrin for 4 hrs"],
    [mode |-> "command", date |-> D1, query |-> ""],
    [mode |-> "cron", date |-> NoneVal, query |-> ""],
    [mode |-> "other", date |-> D1,
     query |-> "book Alice Smith on project Merrin for 4 hrs and project Vanguard for 2 hrs"] }

\* requests are numbered in the order they arrive
InArrivalOrder(r) == IF r = 1 THEN TRUE ELSE pc[r - 1] # "idle"

\* the handler of POST /orchestrate up to its first await, on body p
Orchestrate(r, p) ==
  LET question == UserQuery(p)
      asked == [user_query |-> question,
                history |-> ask_memory[SessionOf(p)]]
  IN /\ payload' = [payload EXCEPT ![r] = [via |-> "orchestrate"] @@ p]
     /\ CASE Route(p) = "pipeline" ->
               /\ context' = [context EXCEPT ![r] = InitialContext(p)]
               /\ pc' = [pc EXCEPT ![r] = enhanced_stages[1]]
               /\ loop' = r
               /\ response' = response
          [] Route(p) = "crew" ->
               /\ context' = [context EXCEPT ![r] = asked]
               /\ pc' = [pc EXCEPT ![r] = "crew_wait"]
               /\ loop' = 0
               /\ response' = response
          [] Route(p) = "direct" /\ AskParse[question].dates = <<>> ->
               /\ context' = [context EXCEPT ![r] = asked]
               /\ Answer(r, "I couldn't understand the date format.", "text")
               /\ loop' = 0
          [] OTHER ->
               /\ context' = [context EXCEPT ![r] = asked]
               /\ pc' = [pc EXCEPT ![r] = "ask_staff_wait"]
               /\ loop' = 0
               /\ response' = response
     /\ UNCHANGED <<scheduled, auditLog, clock, audited, writerVars, fnVars,
                    askVars>>

\* POST /orchestrate with a mode that takes the stage pipeline
StartOrchestrate(r) ==
  /\ loop = 0
  /\ pc[r] = "idle"
  /\ InArrivalOrder(r)
  /\ \E p \in Payloads : Orchestrate(r, p)

\* orchestrator.run(context) on a context of the caller's
StartRun(r) ==
  /\ loop = 0
  /\ pc[r] = "idle"
  /\ InArrivalOrder(r)
  /\ \E c \in Opt("date", {D1}) :
       context' = [context EXCEPT ![r] = c]
  /\ payload' = [payload EXCEPT ![r] = [via |-> "run"]]
  /\ pc' = [pc EXCEPT ![r] = run_stages[1]]
  /\ loop' = r
  /\ UNCHANGED <<response, scheduled, auditLog, clock, audited, writerVars,
                 fnVars, askVars>>

\* availability_logic without a date: no call, an empty list
AvailabilitySkip(r) ==
  /\ loop = r
  /\ pc[r] = "availability"
  /\ ~Truthy(Get(context[r], "date", NoneVal))
  /\ Merge(r, "availability", [availability |-> <<>>])
  /\ UNCHANGED <<payload, response, scheduled, loop, auditLog, clock, audited,
                 writerVars, fnVars, askVars>>

\* availability_logic with a date: GET /api/availability?date=, awaited
AvailabilityRequest(r) ==
  /\ loop = r
  /\ pc[r] = "availability"
  /\ Truthy(Get(context[r], "date", NoneVal))
  /\ pc' = [pc EXCEPT ![r] = "availability_wait"]
  /\ loop' = 0
  /\ UNCHANGED <<payload, context, response, scheduled, auditLog, clock,
                 audited, writerVars, fnVars, askVars>>

AvailabilityResponse(r) ==
  /\ loop = 0
  /\ pc[r] = "availability_wait"
  /\ Merge(r, "availability",
           [availability |-> AvailabilityData(context[r].date)])
  /\ loop' = r
  /\ UNCHANGED <<payload, response, scheduled, auditLog, clock, audited,
                 writerVars, fnVars, askVars>>

\* the call fails or answers non-2xx: raise_for_status raises
AvailabilityError(r) ==
  /\ loop = 0
  /\ pc[r] = "availability_wait"
  /\ Fail(r)
  /\ UNCHANGED <<payload, context, scheduled, auditLog, clock, audited,
                 writerVars, fnVars, askVars>>

\* shift_logic, the baseline policy of _StubOrchestrator.run
ShiftBaseline(r) ==
  /\ loop = r
  /\ pc[r] = "shift"
  /\ payload[r].via = "run"
  /\ Merge(r, "shift", shift_logic(context[r]))
  /\ UNCHANGED <<payload, response, scheduled, loop, auditLog, clock, audited,
                 writerVars, fnVars, askVars>>

\* enhanced_shift_logic: GET /api/staff, awaited
StaffRequest(r) ==
  /\ loop = r
  /\ pc[r] = "shift"
  /\ payload[r].via = "orchestrate"
  /\ pc' = [pc EXCEPT ![r] = "staff_wait"]
  /\ loop' = 0
  /\ UNCHANGED <<payload, context, response, scheduled, auditLog, clock,
                 audited, writerVars, fnVars, askVars>>

\* the staff arrive, GET /api/projects, awaited
StaffResponse(r) ==
  /\ loop = 0
  /\ pc[r] = "staff_wait"
  /\ pc' = [pc EXCEPT ![r] = "projects_wait"]
  /\ UNCHANGED <<payload, context, response, scheduled, loop, auditLog, clock,
                 audited, writerVars, fnVars, askVars>>

\* the projects arrive: the matches
ProjectsResponse(r) ==
  /\ loop = 0
  /\ pc[r] = "projects_wait"
  /\ Merge(r, "shift", enhanced_shift_logic(context[r], StaffData, ProjectData))
  /\ loop' = r
  /\ UNCHANGED <<payload, response, scheduled, auditLog, clock, audited,
                 writerVars, fnVars, askVars>>

\* fetch_data_from_backend raises HTTPException(500)
FetchError(r) ==
  /\ loop = 0
  /\ pc[r] \in {"staff_wait", "projects_wait"}
  /\ Fail(r)
  /\ UNCHANGED <<payload, context, scheduled, auditLog, clock, audited,
                 writerVars, fnVars, askVars>>

Notify(r) ==
  /\ loop = r
  /\ pc[r] = "notify"
  /\ Merge(r, "notify", notifier_logic(context[r]))
  /\ UNCHANGED <<payload, response, scheduled, loop, auditLog, clock, audited,
                 writerVars, fnVars, askVars>>

ConflictResolve(r) ==
  /\ loop = r
  /\ pc[r] = "conflict"
  /\ Merge(r, "conflict", conflict_resolver_logic(context[r]))
  /\ UNCHANGED <<payload, response, scheduled, loop, auditLog, clock, audited,
                 writerVars, fnVars, askVars>>

\* audit_logger_logic
AuditLog(r) ==
  /\ loop = r
  /\ pc[r] = "audit"
  /\ auditLog' = AppendAudit(auditLog, AuditEntry(context[r], clock))
  /\ clock' = clock + 1
  /\ audited' = Append(audited, Deref(context[r], auditLog))
  /\ Merge(r, "audit", [auditLog |-> LogRef])
  /\ UNCHANGED <<payload, response, scheduled, loop, writerVars, fnVars, askVars>>

\* _StubOrchestrator.run returns the context
ReturnRun(r) ==
  /\ loop = r
  /\ pc[r] = "return"
  /\ payload[r].via = "run"
  /\ pc' = [pc EXCEPT ![r] = "done"]
  /\ response' = [response EXCEPT ![r] =
       [status |-> "returned", body |-> Deref(context[r], auditLog)]]
  /\ loop' = 0
  /\ UNCHANGED <<payload, context, scheduled, auditLog, clock, audited,
                 writerVars, fnVars, askVars>>

\* orchestrate after enhanced_stub_orchestrator: the background task, the
\* validation, the response
FinishOrchestrate(r) ==
  /\ loop = r
  /\ pc[r] = "return"
  /\ payload[r].via = "orchestrate"
  /\ LET result == context[r]
         add == ScheduleCondition(payload[r].mode, result)
         valid == validate_pipeline_output(result)
     IN /\ scheduled' = [scheduled EXCEPT ![r] = add]
        /\ IF valid
             THEN /\ pc' = [pc EXCEPT ![r] = "done"]
                  /\ response' = [response EXCEPT ![r] =
                       [status |-> "200", body |-> Deref(result, auditLog)]]
                  /\ wpc' = [wpc EXCEPT ![r] = IF add THEN "pending" ELSE @]
             ELSE /\ pc' = [pc EXCEPT ![r] = "failed"]
                  /\ response' = [response EXCEPT ![r] = [status |-> "500"]]
                  /\ wpc' = wpc
  /\ loop' = 0
  /\ UNCHANGED <<payload, context, auditLog, clock, audited, wmatches, widx,
                 calls, created, fnVars, askVars>>

\* ------------------------------------------- the direct question path
AskWaits == {"ask_staff_wait", "ask_assignments_wait", "ask_projects_wait"}

\* the staff list arrived: the first staff whose name matches the question's
AskStaffResponse(r) ==
  /\ loop = 0
  /\ pc[r] = "ask_staff_wait"
  /\ LET name == AskParse[context[r].user_query].name
         hit == FirstMatch(name, StaffData)
     IN IF hit = 0
          THEN /\ Answer(r, <<"I couldn't find staff member", name>>, "text")
               /\ context' = context
          ELSE /\ context' = [context EXCEPT ![r] =
                    Update(@, [staff |-> StaffData[hit]])]
               /\ pc' = [pc EXCEPT ![r] = "ask_assignments_wait"]
               /\ response' = response
  /\ UNCHANGED <<payload, scheduled, loop, auditLog, clock, audited,
                 writerVars, fnVars, askVars>>

\* the assignments arrived: those of the staff on the date of the question
\* (the questions in use name one date)
AskAssignmentsResponse(r) ==
  /\ loop = 0
  /\ pc[r] = "ask_assignments_wait"
  /\ LET parsed == AskParse[context[r].user_query]
         staff == context[r].staff
         date == parsed.dates[1]
         Mine(a) == Get(a, "staffId", NoneVal) = staff.id
                      /\ Get(a, "date", NoneVal) = date
         mine == SelectSeq(AssignmentData, Mine)
         none == IF parsed.kind = "is" THEN mine = <<>>
                 ELSE SumHours(mine) <= 0
     IN IF none
          THEN /\ Answer(r,
                    IF parsed.kind = "is"
                      THEN <<"No", staff.name, "is not assigned on", date>>
                      ELSE <<staff.name, "is not working any hours on", date>>,
                    "text")
               /\ context' = context
          ELSE /\ context' = [context EXCEPT ![r] =
                    Update(@, [assignments |-> mine])]
               /\ pc' = [pc EXCEPT ![r] = "ask_projects_wait"]
               /\ response' = response
  /\ UNCHANGED <<payload, scheduled, loop, auditLog, clock, audited,
                 writerVars, fnVars, askVars>>

\* the projects arrived: the answer names them and the hours
AskProjectsResponse(r) ==
  /\ loop = 0
  /\ pc[r] = "ask_projects_wait"
  /\ LET parsed == AskParse[context[r].user_query]
         mine == context[r].assignments
     IN Answer(r,
          <<IF parsed.kind = "is" THEN "Yes" ELSE "is working",
            context[r].staff.name, ProjectNames(mine, ProjectData),
            parsed.dates[1], SumHours(mine)>>,
          "text")
  /\ UNCHANGED <<payload, context, scheduled, loop, auditLog, clock, audited,
                 writerVars, fnVars, askVars>>

\* what the except clause around the direct question path answers
OnAskError ==
  [status |-> "200",
   body |-> [content |-> "I had trouble understanding your question.",
             type |-> "text"]]

\* a fetch of the direct question path failed: fetch_data_from_backend
\* raises HTTPException, which the except clause of the path catches
AskFetchError(r) ==
  /\ loop = 0
  /\ pc[r] \in AskWaits
  /\ pc' = [pc EXCEPT ![r] = "excepted"]
  /\ response' = [response EXCEPT ![r] = OnAskError]
  /\ UNCHANGED <<payload, context, scheduled, loop, auditLog, clock, audited,
                 writerVars, fnVars, askVars>>

\* ------------------------------------------------------------- the crew
\* crew.kickoff() returned: the turn is saved and the answer formatted
CrewReturn(r) ==
  /\ loop = 0
  /\ pc[r] = "crew_wait"
  /\ \E result \in CrewResults :
       LET add == ScheduleCondition(payload[r].mode, result)
       IN /\ scheduled' = [scheduled EXCEPT ![r] = add]
          /\ wpc' = [wpc EXCEPT ![r] = IF add THEN "pending" ELSE @]
          /\ ask_memory' = SaveTurn(ask_memory, SessionOf(payload[r]),
                                    TurnOf(payload[r], result, clock))
          /\ IF "response" \in DOMAIN result
               THEN Answer(r, result.response, "text")
               ELSE Answer(r, [json |-> result], "json")
  /\ clock' = clock + 1
  /\ UNCHANGED <<payload, context, loop, auditLog, audited, wmatches, widx,
                 calls, created, fnVars>>

\* crew.kickoff() raised: HTTPException(500, "CrewAI execution error")
CrewError(r) ==
  /\ loop = 0
  /\ pc[r] = "crew_wait"
  /\ pc' = [pc EXCEPT ![r] = "failed"]
  /\ response' = [response EXCEPT ![r] = [status |-> "500"]]
  /\ UNCHANGED <<payload, context, scheduled, loop, auditLog, clock, audited,
                 writerVars, fnVars, askVars>>

\* ----------------------------------------------------- process_assignments
\* the background task starts once the response is out
WriterStart(r) ==
  /\ loop = 0
  /\ wpc[r] = "pending"
  /\ LET matches == BatchOf(context[r])
     IN /\ wmatches' = [wmatches EXCEPT ![r] = matches]
        /\ IF matches = <<>>
             THEN /\ wpc' = [wpc EXCEPT ![r] = "done"]
                  /\ loop' = 0
             ELSE /\ wpc' = [wpc EXCEPT ![r] = "loop"]
                  /\ loop' = r
  /\ widx' = [widx EXCEPT ![r] = 1]
  /\ UNCHANGED <<pc, payload, context, response, scheduled, auditLog, clock,
                 audited, calls, created, fnVars, askVars>>

AtMatch(r) == loop = r /\ wpc[r] = "loop" /\ widx[r] <= Len(wmatches[r])

\* the progress print raises: the outer except ends the task
WriterAbort(r) ==
  /\ AtMatch(r)
  /\ PrintRaises(wmatches[r][widx[r]])
  /\ wpc' = [wpc EXCEPT ![r] = "aborted"]
  /\ response' = [response EXCEPT ![r] = WriterFailure(@)]
  /\ loop' = 0
  /\ UNCHANGED <<pc, payload, context, scheduled, auditLog, clock, audited,
                 wmatches, widx, calls, created, fnVars, askVars>>

\* an invalid match is skipped
WriterSkip(r) ==
  /\ AtMatch(r)
  /\ ~PrintRaises(wmatches[r][widx[r]])
  /\ IsSkipped(wmatches[r][widx[r]])
  /\ widx' = [widx EXCEPT ![r] = @ + 1]
  /\ UNCHANGED <<pipeVars, wpc, wmatches, calls, created, fnVars, askVars>>

\* create_assignments(assignment_data): POST /api/assignments, awaited
WriterCreate(r) ==
  /\ AtMatch(r)
  /\ ~PrintRaises(wmatches[r][widx[r]])
  /\ ~IsSkipped(wmatches[r][widx[r]])
  /\ calls' = [calls EXCEPT ![r] = Append(@,
       [index |-> widx[r], body |-> assignment_data(wmatches[r][widx[r]]),
        outcome |-> "pending"])]
  /\ wpc' = [wpc EXCEPT ![r] = "create_wait"]
  /\ loop' = 0
  /\ UNCHANGED <<pc, payload, context, response, scheduled, auditLog, clock,
                 audited, wmatches, widx, created, fnVars, askVars>>

\* the backend created the assignment
CreateOk(r) ==
  /\ loop = 0
  /\ wpc[r] = "create_wait"
  /\ calls' = [calls EXCEPT ![r] =
       [@ EXCEPT ![Len(calls[r])].outcome = "ok"]]
  /\ created' = [created EXCEPT ![r] = @ + 1]
  /\ widx' = [widx EXCEPT ![r] = @ + 1]
  /\ wpc' = [wpc EXCEPT ![r] = "loop"]
  /\ loop' = r
  /\ UNCHANGED <<pc, payload, context, response, scheduled, auditLog, clock,
                 audited, wmatches, fnVars, askVars>>

\* the call failed: create_assignments raises HTTPException(500)
CreateError(r) ==
  /\ loop = 0
  /\ wpc[r] = "create_wait"
  /\ calls' = [calls EXCEPT ![r] =
       [@ EXCEPT ![Len(calls[r])].outcome = "failed"]]
  /\ wpc' = [wpc EXCEPT ![r] = OnCreateError]
  /\ IF OnCreateError = "loop"
       THEN widx' = [widx EXCEPT ![r] = @ + 1] /\ loop' = r
       ELSE widx' = widx /\ loop' = 0
  /\ response' = [response EXCEPT ![r] = WriterFailure(@)]
  /\ UNCHANGED <<pc, payload, context, scheduled, auditLog, clock, audited,
                 wmatches, created, fnVars, askVars>>

\* the loop is through
WriterEnd(r) ==
  /\ loop = r
  /\ wpc[r] = "loop"
  /\ widx[r] > Len(wmatches[r])
  /\ wpc' = [wpc EXCEPT ![r] = "done"]
  /\ loop' = 0
  /\ UNCHANGED <<pc, payload, context, response, scheduled, auditLog, clock,
                 audited, wmatches, widx, calls, created, fnVars, askVars>>

\* ------------------------------------------------------------ the server
NoRequest ==
  /\ pc = [r \in Req |-> "idle"]
  /\ payload = [r \in Req |-> [via |-> "none"]]
  /\ context = [r \in Req |-> Absent]
  /\ response = [r \in Req |-> [status |-> "none"]]
  /\ scheduled = [r \in Req |-> FALSE]
  /\ loop = 0
  /\ auditLog = <<>>
  /\ clock = 1
  /\ audited = <<>>
NoWriter ==
  /\ wpc = [r \in Req |-> "none"]
  /\ wmatches = [r \in Req |-> <<>>]
  /\ widx = [r \in Req |-> 0]
  /\ calls = [r \in Req |-> <<>>]
  /\ created = [r \in Req |-> 0]
NoFn == fnCtx = Absent /\ fnOut = Absent /\ fnOp = "none"
NoAsk == ask_memory = [s \in Sessions |-> <<>>]

Init == NoRequest /\ NoWriter /\ NoFn /\ NoAsk

Next ==
  \E r \in Req :
    \/ StartOrchestrate(r)
    \/ StartRun(r)
    \/ AvailabilitySkip(r)
    \/ AvailabilityRequest(r)
    \/ AvailabilityResponse(r)
    \/ AvailabilityError(r)
    \/ ShiftBaseline(r)
    \/ StaffRequest(r)
    \/ StaffResponse(r)
    \/ ProjectsResponse(r)
    \/ FetchError(r)
    \/ Notify(r)
    \/ ConflictResolve(r)
    \/ AuditLog(r)
    \/ ReturnRun(r)
    \/ FinishOrchestrate(r)
    \/ WriterStart(r)
    \/ WriterAbort(r)
    \/ WriterSkip(r)
    \/ WriterCreate(r)
    \/ CreateOk(r)
    \/ CreateError(r)
    \/ WriterEnd(r)

Spec == Init /\ [][Next]_vars

\* ------------------------------------------------- the server, asked
\* the bodies and session headers of the requests of the ask endpoints, and
\* one body whose mode is none of ask, command and cron
AskPayloads ==
  { [mode |-> "ask", query |-> "Is Alice Smith on any project on May 21st",
     date |-> NoneVal],
    [mode |-> "ask", query |-> "Is Bob Jones on any project on May 21st",
     date |-> NoneVal, session |-> "sA"],
    [mode |-> "ask", query |-> "Is Carol on any project on May 21st",
     date |-> NoneVal],
    [mode |-> "ask", query |-> "How many hrs is Alice Smith working on May 21st",
     date |-> NoneVal, session |-> "sA"],
    [mode |-> "ask", query |-> "How many hrs is Alice Smith working on vacation",
     date |-> NoneVal],
    [mode |-> "ask", query |-> "hello", date |-> NoneVal, session |-> "sA"],
    [mode |-> "ask", query |-> NoneVal, date |-> NoneVal,
     messages |-> <<"hello", "Is Alice Smith on any project">>],
    [mode |-> "ask", query |-> NoneVal, date |-> NoneVal],
    OrchestrationInput([date |-> D1]),
    [mode |-> "other", date |-> D1,
     query |-> "book Alice Smith on project Merrin for 0 hrs"] }

\* POST /orchestrate, /api/ask or /chat
StartAsk(r) ==
  /\ loop = 0
  /\ pc[r] = "idle"
  /\ InArrivalOrder(r)
  /\ \E p \in AskPayloads : Orchestrate(r, p)

NextAsk ==
  \E r \in Req :
    \/ StartAsk(r)
    \/ AskStaffResponse(r)
    \/ AskAssignmentsResponse(r)
    \/ AskProjectsResponse(r)
    \/ AskFetchError(r)
    \/ CrewReturn(r)
    \/ CrewError(r)
    \/ AvailabilityRequest(r)
    \/ AvailabilityResponse(r)
    \/ AvailabilityError(r)
    \/ StaffRequest(r)
    \/ StaffResponse(r)
    \/ ProjectsResponse(r)
    \/ FetchError(r)
    \/ Notify(r)
    \/ ConflictResolve(r)
    \/ AuditLog(r)
    \/ FinishOrchestrate(r)

SpecAsk == Init /\ [][NextAsk]_vars

\* ------------------------------------- the server, with every mode
\* the bodies of the modes command, cron and other, and one ask body that
\* goes to the crew
ModePayloads == Payloads \cup {OrchestrationInput([date |-> D1])}

StartMode(r) ==
  /\ loop = 0
  /\ pc[r] = "idle"
  /\ InArrivalOrder(r)
  /\ \E p \in ModePayloads : Orchestrate(r, p)

NextModes ==
  \E r \in Req :
    \/ StartMode(r)
    \/ CrewReturn(r)
    \/ CrewError(r)
    \/ AvailabilityRequest(r)
    \/ AvailabilityResponse(r)
    \/ AvailabilityError(r)
    \/ StaffRequest(r)
    \/ StaffResponse(r)
    \/ ProjectsResponse(r)
    \/ FetchError(r)
    \/ Notify(r)
    \/ ConflictResolve(r)
    \/ AuditLog(r)
    \/ FinishOrchestrate(r)
    \/ WriterStart(r)
    \/ WriterAbort(r)
    \/ WriterSkip(r)
    \/ WriterCreate(r)
    \/ CreateOk(r)
    \/ CreateError(r)
    \/ WriterEnd(r)

SpecModes == Init /\ [][NextModes]_vars

\* ------------------------------------------- the Assignment Writer alone
\* process_assignments(result, payload) on a result of any content
WriterBatchMatches ==
  { [staffId |-> "s1", projectId |-> "p1", date |-> D1, assignedHours |-> 4],
    [staffId |-> "s2", projectId |-> "p2", date |-> D1, assignedHours |-> 2],
    [staffId |-> "s1", projectId |-> "p1", date |-> D1, assignedHours |-> 0],
    [staffId |-> "s1", projectId |-> "p1", date |-> D1],
    [staffId |-> "s1", date |-> D1, assignedHours |-> 4],
    [staffId |-> "", projectId |-> "p1", date |-> D1, assignedHours |-> 4],
    [staffId |-> "s1", projectId |-> "p1", date |-> "", assignedHours |-> 4],
    [staffId |-> "#7", projectId |-> "p1", date |-> D1, assignedHours |-> 4] }
WriterResults ==
  {[resolvedMatches |-> b] : b \in SeqUpTo(WriterBatchMatches, MaxBatch)}
  \cup {[resolvedMatches |-> <<>>, matches |-> b] :
          b \in SeqUpTo(WriterBatchMatches, MaxBatch)}

InitWriter ==
  /\ \E result \in WriterResults :
       context = [r \in Req |-> IF r = 1 THEN result ELSE Absent]
  /\ pc = [r \in Req |-> IF r = 1 THEN "done" ELSE "idle"]
  /\ payload = [r \in Req |->
       IF r = 1 THEN [via |-> "orchestrate", mode |-> "command",
                      date |-> NoneVal, query |-> ""]
                ELSE [via |-> "none"]]
  /\ response = [r \in Req |-> [status |-> IF r = 1 THEN "200" ELSE "none"]]
  /\ scheduled = [r \in Req |-> r = 1]
  /\ loop = 0
  /\ auditLog = <<>>
  /\ clock = 1
  /\ audited = <<>>
  /\ wpc = [r \in Req |-> IF r = 1 THEN "pending" ELSE "none"]
  /\ wmatches = [r \in Req |-> <<>>]
  /\ widx = [r \in Req |-> 0]
  /\ calls = [r \in Req |-> <<>>]
  /\ created = [r \in Req |-> 0]
  /\ NoFn
  /\ NoAsk

NextWriter ==
  \E r \in Req :
    \/ WriterStart(r)
    \/ WriterAbort(r)
    \/ WriterSkip(r)
    \/ WriterCreate(r)
    \/ CreateOk(r)
    \/ CreateError(r)
    \/ WriterEnd(r)

SpecWriter == InitWriter /\ [][NextWriter]_vars

\* --------------------------------------- the same result handled again
\* The same command delivered again: process_assignments runs once per
\* request on one and the same result.
RepeatResults == {res \in WriterResults : Len(BatchOf(res)) <= 2}

InitRepeat ==
  /\ \E result \in RepeatResults : context = [r \in Req |-> result]
  /\ pc = [r \in Req |-> "done"]
  /\ payload = [r \in Req |->
       [via |-> "orchestrate", mode |-> "command", date |-> NoneVal,
        query |-> ""]]
  /\ response = [r \in Req |-> [status |-> "200"]]
  /\ scheduled = [r \in Req |-> TRUE]
  /\ loop = 0
  /\ auditLog = <<>>
  /\ clock = 1
  /\ audited = <<>>
  /\ wpc = [r \in Req |-> "pending"]
  /\ wmatches = [r \in Req |-> <<>>]
  /\ widx = [r \in Req |-> 0]
  /\ calls = [r \in Req |-> <<>>]
  /\ created = [r \in Req |-> 0]
  /\ NoFn
  /\ NoAsk

SpecRepeat == InitRepeat /\ [][NextWriter]_vars

\* ----------------------------------------------- the stage functions alone
\* The stage functions called directly on a context, as the unit tests of
\* tests/test_shift.py, test_notifier.py and test_conflict_resolver.py do.
FnStaffIds == {"s1", "s2"}
FnHours == {-2, 0, 4}
\* AvailabilityEntry {staffId, staffName?, assignedHours, availableHours}
FnEntries ==
  {[staffId |-> s, assignedHours |-> 2] @@ n @@ h :
     s \in FnStaffIds, n \in Opt("staffName", {"Alice"}),
     h \in Opt("availableHours", FnHours)}
\* Match {staffId, staffName?, assignedHours, date?}
FnMatches ==
  {[staffId |-> "s1"] @@ n @@ h @@ d :
     n \in Opt("staffName", {"Alice"}), h \in Opt("assignedHours", FnHours),
     d \in Opt("date", {D1, D2})}
FnContexts ==
  {d @@ a : d \in Opt("date", {NoneVal, "", D1}),
            a \in Opt("availability", SeqUpTo(FnEntries, MaxLen))}
  \cup
  {d @@ m : d \in Opt("date", {NoneVal, "", D1}),
            m \in Opt("matches", SeqUpTo(FnMatches, MaxLen))}

InitFn ==
  /\ fnCtx \in FnContexts
  /\ fnOut = Absent
  /\ fnOp = "none"
  /\ NoRequest
  /\ NoWriter
  /\ NoAsk

CallShift ==
  /\ fnOp = "none"
  /\ fnOut' = shift_logic(fnCtx)
  /\ fnOp' = "shift_logic"
  /\ UNCHANGED <<fnCtx, pipeVars, writerVars, askVars>>

CallNotifier ==
  /\ fnOp = "none"
  /\ fnOut' = notifier_logic(fnCtx)
  /\ fnOp' = "notifier_logic"
  /\ UNCHANGED <<fnCtx, pipeVars, writerVars, askVars>>

CallConflictResolver ==
  /\ fnOp = "none"
  /\ fnOut' = conflict_resolver_logic(fnCtx)
  /\ fnOp' = "conflict_resolver_logic"
  /\ UNCHANGED <<fnCtx, pipeVars, writerVars, askVars>>

\* conflict_resolver_logic once more, on the context updated with its own
\* output as the matches; both outputs are kept
CallConflictResolverAgain ==
  /\ fnOp = "conflict_resolver_logic"
  /\ LET again == Update(fnCtx, [matches |-> fnOut.resolvedMatches])
     IN fnOut' = [first |-> fnOut.resolvedMatches,
                  resolvedMatches |->
                    conflict_resolver_logic(again).resolvedMatches]
  /\ fnOp' = "conflict_resolver_logic twice"
  /\ UNCHANGED <<fnCtx, pipeVars, writerVars, askVars>>

NextFn ==
  \/ CallShift
  \/ CallNotifier
  \/ CallConflictResolver
  \/ CallConflictResolverAgain
SpecFn == InitFn /\ [][NextFn]_vars

\* --------------------------------------------- the Output Validator alone
\* validate_pipeline_output called directly, as tests/test_processing.py does
ValidatorMatches ==
  { [staffId |-> "s1", assignedHours |-> 4], [staffId |-> "s1"],
    [assignedHours |-> 4], [projectId |-> "p1"] }
ValidatorResults ==
  {a @@ m @@ n @@ l @@ rm @@ x :
     a \in Opt("availability", {<<>>}), m \in Opt("matches", {<<>>}),
     n \in Opt("notifications", {<<>>}), l \in Opt("auditLog", {<<>>}),
     rm \in Opt("resolvedMatches", SeqUpTo(ValidatorMatches, MaxLen)),
     x \in {Absent} \cup {(k :> "x") : k \in PassKeys}}

InitValidate ==
  /\ fnCtx \in ValidatorResults
  /\ fnOut = Absent
  /\ fnOp = "none"
  /\ NoRequest
  /\ NoWriter
  /\ NoAsk

CallValidator ==
  /\ fnOp = "none"
  /\ fnOut' = ValidatorOutcome(fnCtx)
  /\ fnOp' = "validate_pipeline_output"
  /\ UNCHANGED <<fnCtx, pipeVars, writerVars, askVars>>

SpecValidate == InitValidate /\ [][CallValidator]_vars

\* ------------------------------------------- the name resolutions alone
\* app_simple.py: find_staff_by_name / find_project_by_name; the entity
\* returned is a one-element sequence, None the empty one
find_by_name(name, all_entities) ==
  LET exact == {i \in 1..Len(all_entities) :
                  Lower(all_entities[i].name) = Lower(name)}
      partial == {i \in 1..Len(all_entities) :
                    NameMatches(name, all_entities[i].name)}
      First(hits) == CHOOSE i \in hits : \A j \in hits : i <= j
  IN IF exact # {} THEN <<all_entities[First(exact)]>>
     ELSE IF partial # {} THEN <<all_entities[First(partial)]>>
     ELSE <<>>

\* enhanced_shift_logic called on a context, with the staff and projects the
\* backend returns
ShiftQueries ==
  { "",
    "book Alice Smith on project Merrin for 4 hrs and project Vanguard for 2 hrs",
    "book Alice, book Alice Smith on project Merrin for 4 hrs",
    "book Alice Smith on project merrin for 4 hrs and project vanguard for 2 hrs",
    "book the design department on project Merrin for 3 hours" }
ShiftStaffLists ==
  { StaffData,
    <<[id |-> "s3", name |-> "Alice Smithson", department |-> "Design"]>>
      \o StaffData,
    <<StaffData[2]>> }
ShiftProjectLists ==
  { ProjectData, <<ProjectData[2], ProjectData[1]>>, <<ProjectData[2]>> }
ShiftContexts ==
  {Update(InitialContext([query |-> q, date |-> d]), a) :
     q \in ShiftQueries, d \in {NoneVal, D1},
     a \in Opt("availability", {AvailabilityData(D1)})}
  \cup
  {d @@ a : d \in Opt("date", {NoneVal, "", D1}),
            a \in Opt("availability", {<<>>, AvailabilityData(D1)})}
ShiftNames == {"Alice Smith", "Alice", "Carol"}

InitShift ==
  /\ \E c \in ShiftContexts, sd \in ShiftStaffLists,
        pd \in ShiftProjectLists, n \in ShiftNames :
       fnCtx = [context |-> c, staff_data |-> sd, project_data |-> pd,
                name |-> n]
  /\ fnOut = Absent
  /\ fnOp = "none"
  /\ NoRequest
  /\ NoWriter
  /\ NoAsk

CallEnhancedShift ==
  /\ fnOp = "none"
  /\ fnOut' = enhanced_shift_logic(fnCtx.context, fnCtx.staff_data,
                                   fnCtx.project_data)
  /\ fnOp' = "enhanced_shift_logic"
  /\ UNCHANGED <<fnCtx, pipeVars, writerVars, askVars>>

CallFindStaffByName ==
  /\ fnOp = "none"
  /\ fnOut' = [found |-> find_by_name(fnCtx.name, fnCtx.staff_data)]
  /\ fnOp' = "find_staff_by_name"
  /\ UNCHANGED <<fnCtx, pipeVars, writerVars, askVars>>

NextShift == CallEnhancedShift \/ CallFindStaffByName
SpecShift == InitShift /\ [][NextShift]_vars

\* ------------------------------------------ the Command Parser's date
\* app_simple.py, parse_scheduling_command: month_names
month_names ==
     ("january" :> 1) @@ ("february" :> 2) @@ ("march" :> 3)
  @@ ("april" :> 4) @@ ("may" :> 5) @@ ("june" :> 6) @@ ("july" :> 7)
  @@ ("august" :> 8) @@ ("september" :> 9) @@ ("october" :> 10)
  @@ ("november" :> 11) @@ ("december" :> 12)

\* datetime.now().year
CurrentYear == 2025

\* f"{n:02d}", as its two digits
TwoDigits(n) == <<n \div 10, n % 10>>

\* the date mention the date patterns find in a query: which pattern
\* matched (1: day month year, 2: month day year), and its groups; the year
\* group is <<>> when the optional year did not take part
DateMentions ==
  {[pattern |-> p, day |-> d, month |-> m, year |-> y] :
     p \in {1, 2}, d \in 0..MaxDay, m \in DOMAIN month_names,
     y \in {<<>>, <<2024>>}}

\* the date of the result: None is <<>>, "<year>-<MM>-<DD>" is
\* <<year, M, M, D, D>>
parse_date(mention) ==
  LET day == mention.day
      month == month_names[mention.month]
      year == IF mention.year # <<>> THEN mention.year[1] ELSE CurrentYear
  IN IF month # 0 /\ 1 <= day /\ day <= 31
       THEN <<year>> \o TwoDigits(month) \o TwoDigits(day)
       ELSE <<>>

InitParse ==
  /\ fnCtx \in DateMentions
  /\ fnOut = Absent
  /\ fnOp = "none"
  /\ NoRequest
  /\ NoWriter
  /\ NoAsk

CallParse ==
  /\ fnOp = "none"
  /\ fnOut' = [date |-> parse_date(fnCtx)]
  /\ fnOp' = "parse_scheduling_command"
  /\ UNCHANGED <<fnCtx, pipeVars, writerVars, askVars>>

SpecParse == InitParse /\ [][CallParse]_vars

\* --------------------------------------- the simple orchestrator
\* app_simple.py. What parse_scheduling_command extracts from each command.
SimpleParse ==
     ("book Alice Smith on project Merrin for 4 hrs on 21st May 2025" :>
        [staffNames |-> <<"Alice Smith", "Alice Smith">>,
         projectNames |-> <<"Merrin", "Merrin">>, hours |-> 4, date |-> D1])
  @@ ("book Alice Smith on project Merrin for 8 hrs on 21st May 2025" :>
        [staffNames |-> <<"Alice Smith", "Alice Smith">>,
         projectNames |-> <<"Merrin", "Merrin">>, hours |-> 8, date |-> D1])
  @@ ("book Carol Danvers and Bob Jones on project Vanguard for 4 hrs on 21st May 2025" :>
        [staffNames |-> <<"Carol Danvers", "Bob Jones">>,
         projectNames |-> <<"Vanguard", "Vanguard">>, hours |-> 4,
         date |-> D1])
  @@ ("book Carol Danvers on project Merrin for 4 hrs on 21st May 2025" :>
        [staffNames |-> <<"Carol Danvers", "Carol Danvers">>,
         projectNames |-> <<"Merrin", "Merrin">>, hours |-> 4, date |-> D1])
  @@ ("book Alice Smith on project Atlas for 4 hrs on 21st May 2025" :>
        [staffNames |-> <<"Alice Smith", "Alice Smith">>,
         projectNames |-> <<"Atlas", "Atlas">>, hours |-> 4, date |-> D1])
  @@ ("book Alice Smith on project Merrin for 4 hrs on 22nd May 2025" :>
        [staffNames |-> <<"Alice Smith", "Alice Smith">>,
         projectNames |-> <<"Merrin", "Merrin">>, hours |-> 4, date |-> D2])
  @@ ("book Alice Smith" :>
        [staffNames |-> <<"Alice Smith">>, projectNames |-> <<>>,
         hours |-> 8, date |-> NoneVal])

\* the bodies POST /orchestrate of app_simple is called with
SimplePayloads ==
  {[mode |-> "agent", query |-> q] : q \in DOMAIN SimpleParse}
  \cup
  { [mode |-> "agent", query |-> NoneVal],
    [mode |-> "ask",
     query |-> "book Alice Smith on project Merrin for 4 hrs on 21st May 2025"] }

\* the first of the names that find_staff_by_name / find_project_by_name
\* finds, as a one-element sequence, <<>> when none does
RECURSIVE FirstFound(_, _)
FirstFound(names, entities) ==
  IF names = <<>> THEN <<>>
  ELSE IF find_by_name(Head(names), entities) # <<>>
    THEN find_by_name(Head(names), entities)
  ELSE FirstFound(Tail(names), entities)

\* a return of the handler
SimpleAnswer(r, body) ==
  /\ pc' = [pc EXCEPT ![r] = "done"]
  /\ response' = [response EXCEPT ![r] = [status |-> "200", body |-> body]]

\* the branch of the handler: the agent branch needs the mode and a query
AgentBranch(p) == p.mode = "agent" /\ Truthy(p.query)

\* the handler up to its first await
SimpleStart(r) ==
  /\ pc[r] = "idle"
  /\ InArrivalOrder(r)
  /\ \E p \in SimplePayloads :
       /\ payload' = [payload EXCEPT ![r] = [via |-> "simple"] @@ p]
       /\ IF ~AgentBranch(p)
            THEN /\ SimpleAnswer(r, [content |-> <<"I'm in", p.mode, "mode">>,
                                     type |-> "text"])
                 /\ context' = context
          ELSE LET parsed == SimpleParse[p.query]
               IN /\ context' = [context EXCEPT ![r] = [parsed |-> parsed]]
                  /\ IF \/ parsed.staffNames = <<>>
                        \/ parsed.projectNames = <<>>
                        \/ ~Truthy(parsed.date)
                       THEN SimpleAnswer(r,
                              [error |-> "Could not parse all required information",
                               parsed |-> parsed])
                       ELSE /\ pc' = [pc EXCEPT ![r] = "simple_staff_wait"]
                            /\ response' = response
  /\ UNCHANGED <<scheduled, loop, auditLog, clock, audited, writerVars,
                 fnVars, askVars>>

\* the staff arrived: GET /api/projects, awaited
SimpleStaffResponse(r) ==
  /\ pc[r] = "simple_staff_wait"
  /\ pc' = [pc EXCEPT ![r] = "simple_projects_wait"]
  /\ UNCHANGED <<payload, context, response, scheduled, loop, auditLog, clock,
                 audited, writerVars, fnVars, askVars>>

\* the projects arrived: the staff member and the project are looked up
SimpleProjectsResponse(r) ==
  /\ pc[r] = "simple_projects_wait"
  /\ LET parsed == context[r].parsed
         staff_member == FirstFound(parsed.staffNames, StaffData)
         project == FirstFound(parsed.projectNames, ProjectData)
     IN IF staff_member = <<>>
          THEN /\ SimpleAnswer(r, [error |-> "Could not find staff member",
                                   availableStaff |-> StaffData])
               /\ context' = context
        ELSE IF project = <<>>
          THEN /\ SimpleAnswer(r, [error |-> "Could not find project",
                                   availableProjects |-> ProjectData])
               /\ context' = context
        ELSE /\ context' = [context EXCEPT ![r] =
                  Update(@, [staff_member |-> staff_member[1],
                             project |-> project[1]])]
             /\ pc' = [pc EXCEPT ![r] = "simple_availability_wait"]
             /\ response' = response
  /\ UNCHANGED <<payload, scheduled, loop, auditLog, clock, audited,
                 writerVars, fnVars, askVars>>

\* the availability of the date arrived: the entry of the staff member and
\* its hours are checked, then POST /api/assignments, awaited
SimpleAvailabilityResponse(r) ==
  /\ pc[r] = "simple_availability_wait"
  /\ LET parsed == context[r].parsed
         staff_member == context[r].staff_member
         availability_data == AvailabilityData(parsed.date)
         mine == SelectSeq(availability_data,
                           LAMBDA avail : avail.staffId = staff_member.id)
     IN IF mine = <<>>
          THEN /\ SimpleAnswer(r,
                    [error |-> "Could not find availability data"])
               /\ calls' = calls
        ELSE IF mine[1].availableHours < parsed.hours
          THEN /\ SimpleAnswer(r, [error |-> "only has fewer hours available",
                                   availability |-> mine[1]])
               /\ calls' = calls
        ELSE /\ calls' = [calls EXCEPT ![r] = Append(@,
                  [body |-> [staffId |-> staff_member.id,
                             projectId |-> context[r].project.id,
                             date |-> parsed.date, hours |-> parsed.hours],
                   outcome |-> "pending"])]
             /\ pc' = [pc EXCEPT ![r] = "simple_create_wait"]
             /\ response' = response
  /\ UNCHANGED <<payload, context, scheduled, loop, auditLog, clock, audited,
                 wpc, wmatches, widx, created, fnVars, askVars>>

\* the backend created the assignment: the success response
SimpleCreateOk(r) ==
  /\ pc[r] = "simple_create_wait"
  /\ calls' = [calls EXCEPT ![r] = [@ EXCEPT ![Len(calls[r])].outcome = "ok"]]
  /\ SimpleAnswer(r,
       [success |-> TRUE,
        resolvedMatches |->
          <<[staffId |-> context[r].staff_member.id,
             staffName |-> context[r].staff_member.name,
             projectId |-> context[r].project.id,
             projectName |-> context[r].project.name,
             assignedHours |-> context[r].parsed.hours,
             date |-> context[r].parsed.date]>>])
  /\ UNCHANGED <<payload, context, scheduled, loop, auditLog, clock, audited,
                 wpc, wmatches, widx, created, fnVars, askVars>>

\* create_assignment raised: the except clause around it answers
SimpleCreateError(r) ==
  /\ pc[r] = "simple_create_wait"
  /\ calls' = [calls EXCEPT ![r] =
       [@ EXCEPT ![Len(calls[r])].outcome = "failed"]]
  /\ SimpleAnswer(r, [error |-> "Failed to create assignment",
                      details |-> calls[r][Len(calls[r])].body])
  /\ UNCHANGED <<payload, context, scheduled, loop, auditLog, clock, audited,
                 wpc, wmatches, widx, created, fnVars, askVars>>

\* a fetch failed: fetch_data_from_backend raises HTTPException(500), which
\* the outer except clause raises again as a 500
SimpleFetchError(r) ==
  /\ pc[r] \in {"simple_staff_wait", "simple_projects_wait",
                "simple_availability_wait"}
  /\ pc' = [pc EXCEPT ![r] = "failed"]
  /\ response' = [response EXCEPT ![r] = [status |-> "500"]]
  /\ UNCHANGED <<payload, context, scheduled, loop, auditLog, clock, audited,
                 writerVars, fnVars, askVars>>

NextSimple ==
  \E r \in Req :
    \/ SimpleStart(r)
    \/ SimpleStaffResponse(r)
    \/ SimpleProjectsResponse(r)
    \/ SimpleAvailabilityResponse(r)
    \/ SimpleCreateOk(r)
    \/ SimpleCreateError(r)
    \/ SimpleFetchError(r)

SpecSimple == Init /\ [][NextSimple]_vars

\* ------------------------------------------------------------------ claims
\* the Context key each stage writes
OutputKey ==
  [availability |-> "availability", shift |-> "matches",
   notify |-> "notifications", conflict |-> "resolvedMatches",
   audit |-> "auditLog"]

\* the stage a handler is in or about to start, as a position in `order`;
\* past the last one once the pipeline is through
PositionIn(order, p) ==
  LET stage == CASE p = "availability_wait" -> "availability"
                 [] p \in {"staff_wait", "projects_wait"} -> "shift"
                 [] OTHER -> p
  IN IF stage \in {"return", "done"} THEN Len(order) + 1
     ELSE CHOOSE k \in 1..Len(order) : order[k] = stage

\* every run is at one stage of `order`, the outputs of exactly the stages
\* before it are merged into its Context, and the outputs present in the
\* Context of a run that failed are those of a prefix of `order`
StagesFollow(order) ==
  \A r \in Req :
    /\ pc[r] \notin {"idle", "failed"} =>
         \A k \in 1..Len(order) :
           OutputKey[order[k]] \in DOMAIN context[r]
             <=> k < PositionIn(order, pc[r])
    /\ pc[r] = "failed" =>
         \E n \in 0..Len(order) :
           \A k \in 1..Len(order) :
             OutputKey[order[k]] \in DOMAIN context[r] <=> k <= n

FnInMatches == Get(fnCtx, "matches", <<>>)
Positive(match) == "assignedHours" \in DOMAIN match /\ match.assignedHours > 0
StrictlyIncreasing(f) == \A i, j \in DOMAIN f : i < j => f[i] < f[j]

\* C2: ConflictResolve returns exactly the Matches whose assignedHours > 0,
\* each unchanged and in the original relative order, and excludes every
\* other Match; a context without a matches key yields the empty list.
C2_ConflictResolveFilters ==
  fnOp = "conflict_resolver_logic" =>
    LET out == fnOut.resolvedMatches
    IN /\ DOMAIN fnOut = {"resolvedMatches"}
       /\ \A i \in 1..Len(out) : Positive(out[i])
       /\ \E f \in [1..Len(out) -> 1..Len(FnInMatches)] :
            /\ StrictlyIncreasing(f)
            /\ \A i \in 1..Len(out) : out[i] = FnInMatches[f[i]]
            /\ {f[i] : i \in 1..Len(out)}
                 = {j \in 1..Len(FnInMatches) : Positive(FnInMatches[j])}
       /\ ("matches" \notin DOMAIN fnCtx => out = <<>>)

C2_Witness ==
  /\ fnOp = "conflict_resolver_logic"
  /\ Len(FnInMatches) = 2
  /\ ~Positive(FnInMatches[1])
  /\ Positive(FnInMatches[2])
  /\ Len(fnOut.resolvedMatches) = 1

FnInAvailability == Get(fnCtx, "availability", <<>>)
FnHasDate == "date" \in DOMAIN fnCtx /\ fnCtx.date # NoneVal

\* C3: baseline ShiftMatch emits exactly one Match per AvailabilityEntry, in
\* the same order, with the entry's staffId and assignedHours equal to the
\* entry's availableHours, carrying staffName exactly when the entry has one
\* and date exactly when the Context has one.
C3_ShiftOneMatchPerEntry ==
  fnOp = "shift_logic" =>
    LET out == fnOut.matches
    IN /\ Len(out) = Len(FnInAvailability)
       /\ \A i \in 1..Len(out) :
            LET entry == FnInAvailability[i]
                match == out[i]
            IN /\ match.staffId = entry.staffId
               /\ "availableHours" \in DOMAIN entry
                    => match.assignedHours = entry.availableHours
               /\ "staffName" \in DOMAIN match <=> "staffName" \in DOMAIN entry
               /\ "staffName" \in DOMAIN entry
                    => match.staffName = entry.staffName
               /\ "date" \in DOMAIN match <=> FnHasDate
               /\ FnHasDate => match.date = fnCtx.date
               /\ DOMAIN match \subseteq
                    {"staffId", "assignedHours", "staffName", "date"}

C3_Witness ==
  /\ fnOp = "shift_logic"
  /\ Len(FnInAvailability) = 2
  /\ FnHasDate
  /\ "staffName" \in DOMAIN FnInAvailability[1]
  /\ "staffName" \notin DOMAIN FnInAvailability[2]
  /\ "availableHours" \in DOMAIN FnInAvailability[1]
  /\ fnOut.matches[1].assignedHours = 4

HasThreeFields(match) ==
  {"staffName", "assignedHours", "date"} \subseteq DOMAIN match

\* C4: for every input Match that has staffName, assignedHours and date,
\* Notify emits exactly one Notification, in input order, whose message is
\* "<staffName> assigned <assignedHours> hours on <date>" built from that
\* Match's own three fields, and whose staffId, staffName, assignedHours and
\* date equal the Match's.
C4_NotifyMessageFromMatch ==
  fnOp = "notifier_logic" =>
    LET out == fnOut.notifications
    IN /\ Len(out) = Len(FnInMatches)
       /\ \A i \in 1..Len(out) :
            LET match == FnInMatches[i]
            IN HasThreeFields(match) =>
                 /\ out[i].message =
                      match.staffName \o " assigned "
                        \o ToString(match.assignedHours)
                        \o " hours on " \o match.date
                 /\ out[i].staffId = match.staffId
                 /\ out[i].staffName = match.staffName
                 /\ out[i].assignedHours = match.assignedHours
                 /\ out[i].date = match.date

\* C5: the global audit log is append-only: after N calls of the AuditLog
\* stage it holds exactly N entries in call order, entry k holds the key/value
\* pairs of the k-th call's Context plus a timestamp, and no later call
\* changes an earlier entry.
C5_AuditLogAppendOnly ==
  /\ [](/\ Len(auditLog) = Len(audited)
        /\ \A k \in 1..Len(auditLog) :
             /\ DOMAIN auditLog[k] = DOMAIN audited[k] \cup {"timestamp"}
             /\ \A key \in DOMAIN audited[k] :
                  auditLog[k][key] = audited[k][key]
             /\ \A j \in 1..(k - 1) :
                  auditLog[j].timestamp <= auditLog[k].timestamp)
  /\ [][\A k \in 1..Len(auditLog) :
          Len(auditLog') >= k /\ auditLog'[k] = auditLog[k]]_vars

C5_Witness ==
  /\ Len(auditLog) = 2
  /\ auditLog[1] # auditLog[2]
  /\ \E r \in Req : pc[r] = "done" /\ Len(response[r].body.auditLog) = 1

\* C6: once a run has finished its AuditLog stage, the Context it returned
\* never changes again: nothing reachable from it, its auditLog included, is
\* altered by a later request.
C6_FinalContextNeverChanges ==
  \A r \in Req :
    pc[r] = "done" => Deref(context[r], auditLog) = response[r].body

Finished(r) == wpc[r] \in {"done", "aborted"}

\* C7 as claimed: in command mode the Assignment Writer is scheduled if and
\* only if the result holds at least one ResolvedMatch.
C7_ScheduledIffResolvedMatch ==
  \A r \in Req :
    (pc[r] = "done" /\ payload[r].via = "orchestrate"
       /\ payload[r].mode = "command")
      => (scheduled[r] <=> context[r].resolvedMatches # <<>>)

\* C7 amended: in command mode the Assignment Writer is scheduled if and
\* only if the result holds at least one Match (in resolvedMatches or in
\* matches); a result whose resolvedMatches is empty and whose matches is not
\* is scheduled, and the writer then issues no create-assignment call.
C7_ScheduledIffAnyMatch ==
  \A r \in Req :
    (pc[r] = "done" /\ payload[r].via = "orchestrate"
       /\ payload[r].mode = "command")
      => /\ scheduled[r] <=> context[r].matches # <<>>
         /\ scheduled[r] <=> wpc[r] # "none"
         /\ context[r].resolvedMatches = <<>> => calls[r] = <<>>

C7_Witness ==
  \E r \in Req :
    /\ pc[r] = "done"
    /\ payload[r].via = "orchestrate"
    /\ payload[r].mode = "command"
    /\ context[r].resolvedMatches = <<>>
    /\ context[r].matches # <<>>
    /\ scheduled[r]
    /\ wpc[r] = "done"

NonEmpty(match, key) == key \in DOMAIN match /\ Truthy(match[key])

\* the matches the claims call valid
HasAllFields(match) ==
  /\ Positive(match)
  /\ NonEmpty(match, "staffId")
  /\ NonEmpty(match, "projectId")
  /\ NonEmpty(match, "date")

\* the matches that are valid and whose ids are strings
WellFormed(match) ==
  /\ HasAllFields(match)
  /\ match.staffId \notin NumericIds
  /\ match.projectId \notin NumericIds

CallsFor(r, i) == {k \in 1..Len(calls[r]) : calls[r][k].index = i}

\* C8: one run of the Assignment Writer issues exactly one create-assignment
\* call, with body {staffId, projectId, date, hours = assignedHours}, for
\* each match that has assignedHours > 0 and a non-empty staffId, projectId
\* and date, and no call for any other match.
C8_OneCallPerValidMatch ==
  \A r \in Req :
    Finished(r) =>
      LET batch == BatchOf(context[r])
      IN \A i \in 1..Len(batch) :
           IF HasAllFields(batch[i])
             THEN /\ Cardinality(CallsFor(r, i)) = 1
                  /\ \A k \in CallsFor(r, i) :
                       calls[r][k].body = assignment_data(batch[i])
             ELSE CallsFor(r, i) = {}

\* C9: an invalid or incomplete match in a batch is skipped alone: every
\* valid match before and after it still gets its create-assignment call.
C9_BadMatchSkippedAlone ==
  \A r \in Req :
    Finished(r) =>
      LET batch == BatchOf(context[r])
      IN \A i \in 1..Len(batch) :
           WellFormed(batch[i]) => CallsFor(r, i) # {}

Passed(r) ==
  {i \in 1..Len(wmatches[r]) :
     i < widx[r] \/ (i = widx[r] /\ wpc[r] = "create_wait")}

C11_WriterAfterResponse ==
  /\ [](\A r \in Req :
          /\ wpc[r] # "none" =>
               /\ pc[r] = "done"
               /\ payload[r].mode = "command"
               /\ response[r].status = "200"
          /\ calls[r] # <<>> => wpc[r] \notin {"none", "pending"})
  /\ [][\A r \in Req : wpc[r] # "none" => response'[r] = response[r]]_vars

C11_Witness ==
  \E r \in Req :
    /\ payload[r].via = "orchestrate"
    /\ wpc[r] = "done"
    /\ \E k \in 1..Len(calls[r]) : calls[r][k].outcome = "failed"
    /\ response[r].status = "200"

SameAssignment(a, b) ==
  a.staffId = b.staffId /\ a.projectId = b.projectId /\ a.date = b.date

\* C12: backend writes are idempotent: when the same result is processed by
\* the Assignment Writer a second time, no second assignment is created for
\* a (staffId, projectId, date) the first run created.
C12_NoSecondAssignment ==
  \A r1, r2 \in Req :
    r1 # r2 =>
      \A k1 \in 1..Len(calls[r1]), k2 \in 1..Len(calls[r2]) :
        (calls[r1][k1].outcome = "ok" /\ calls[r2][k2].outcome = "ok")
          => ~SameAssignment(calls[r1][k1].body, calls[r2][k2].body)

\* the positions of a handler inside the stage pipeline
PipelinePcs ==
  {"availability", "availability_wait", "shift", "staff_wait",
   "projects_wait", "notify", "conflict", "audit", "return"}
StageKeys == {OutputKey[s] : s \in DOMAIN OutputKey}
InPipeline(r) ==
  pc[r] \in PipelinePcs \/ DOMAIN context[r] \cap StageKeys # {}

\* C13: a request whose mode is none of ask, command and cron is answered
\* with the fallback QA-style response and never runs the stage pipeline.
C13_UnknownModeNotInPipeline ==
  \A r \in Req :
    (payload[r].via = "orchestrate"
       /\ payload[r].mode \notin {"ask", "command", "cron"})
      => ~InPipeline(r)

C15_BackendFailureIs500 ==
  \A r \in Req :
    pc[r] \in {"failed", "excepted"} => response[r].status = "500"

\* the ask requests of a session that returned an answer
Answered(session) ==
  {r \in Req : /\ payload[r].via = "orchestrate"
               /\ payload[r].mode = "ask"
               /\ SessionOf(payload[r]) = session
               /\ pc[r] = "done"
               /\ response[r].status = "200"}

\* C20: every ask request that returns an answer appends exactly one
\* ConversationTurn {query, answer, timestamp} to the sequence of its
\* session, whether the answer came from the direct question path or from
\* the fallback.
C20_OneTurnPerAnswer ==
  \A session \in Sessions :
    /\ Len(ask_memory[session]) = Cardinality(Answered(session))
    /\ \A k \in 1..Len(ask_memory[session]) :
         DOMAIN ask_memory[session][k] = {"query", "answer", "timestamp"}

\* a result of the baseline stage pipeline
Baseline(result) == PassKeys \cap DOMAIN result = {}

\* all five keys are there and every resolvedMatches element has staffId
\* and assignedHours
WellShaped(result) ==
  /\ RequiredKeys \subseteq DOMAIN result
  /\ \A i \in 1..Len(result.resolvedMatches) :
       {"staffId", "assignedHours"} \subseteq DOMAIN result.resolvedMatches[i]

SeqRange(q) == {q[i] : i \in 1..Len(q)}

\* C16 as claimed: the validator returns a baseline result if and only if it
\* is well shaped, and otherwise raises a 500 error whose detail names
\* exactly the missing keys.
C16_RejectionNamesMissingKeys ==
  (fnOp = "validate_pipeline_output" /\ Baseline(fnCtx)) =>
    IF WellShaped(fnCtx)
      THEN ~fnOut.raised /\ fnOut.value = fnCtx
      ELSE /\ fnOut.raised
           /\ fnOut.status = 500
           /\ "names" \in DOMAIN fnOut.detail
           /\ SeqRange(fnOut.detail.names) = RequiredKeys \ DOMAIN fnCtx

\* C16 amended: the validator returns a baseline result, the same object, if
\* and only if it is well shaped, and otherwise raises a 500 error: when some
\* of the five keys are missing the detail names exactly those keys, in the
\* order of the required list; when all five are present and an element of
\* resolvedMatches lacks staffId or assignedHours the detail shows the first
\* such element and names no key.
C16_ValidatorOutcome ==
  (fnOp = "validate_pipeline_output" /\ Baseline(fnCtx)) =>
    /\ validate_pipeline_output(fnCtx) <=> ~fnOut.raised
    /\ IF WellShaped(fnCtx)
         THEN ~fnOut.raised /\ fnOut.value = fnCtx
         ELSE /\ fnOut.raised
              /\ fnOut.status = 500
              /\ IF RequiredKeys \subseteq DOMAIN fnCtx
                   THEN /\ DOMAIN fnOut.detail = {"text", "match"}
                        /\ \E i \in 1..Len(fnCtx.resolvedMatches) :
                             /\ fnOut.detail.match = fnCtx.resolvedMatches[i]
                             /\ ~({"staffId", "assignedHours"}
                                    \subseteq DOMAIN fnOut.detail.match)
                             /\ \A j \in 1..(i - 1) :
                                  {"staffId", "assignedHours"} \subseteq
                                    DOMAIN fnCtx.resolvedMatches[j]
                   ELSE /\ DOMAIN fnOut.detail = {"text", "names"}
                        /\ SeqRange(fnOut.detail.names)
                             = RequiredKeys \ DOMAIN fnCtx
                        /\ \E f \in [1..Len(fnOut.detail.names)
                                       -> 1..Len(RequiredKeyOrder)] :
                             /\ StrictlyIncreasing(f)
                             /\ \A i \in DOMAIN f :
                                  fnOut.detail.names[i] = RequiredKeyOrder[f[i]]

C16_Witness ==
  /\ fnOp = "validate_pipeline_output"
  /\ Baseline(fnCtx)
  /\ RequiredKeys \subseteq DOMAIN fnCtx
  /\ Len(fnCtx.resolvedMatches) = 2
  /\ fnOut.raised
  /\ fnOut.detail.match = fnCtx.resolvedMatches[2]

\* the entity the stated lookup gives: an exact case-insensitive match, else
\* the first two-way substring match in list order, else None (the entity
\* as a one-element sequence, None as the empty one)
ExactHits(name, entities) ==
  {i \in 1..Len(entities) : Lower(entities[i].name) = Lower(name)}
SubstringHits(name, entities) ==
  {i \in 1..Len(entities) : NameMatches(name, entities[i].name)}
Least(hits) == CHOOSE i \in hits : \A j \in hits : i <= j
InOrderLookup(name, entities) ==
  IF ExactHits(name, entities) # {}
    THEN <<entities[Least(ExactHits(name, entities))]>>
  ELSE IF SubstringHits(name, entities) # {}
    THEN <<entities[Least(SubstringHits(name, entities))]>>
  ELSE <<>>
LookedUpIds(names, entities) ==
  {InOrderLookup(names[i], entities)[1].id :
     i \in {j \in 1..Len(names) : InOrderLookup(names[j], entities) # <<>>}}

\* the shift logic took the cross-product branch on the requested names
CrossProduct ==
  /\ fnOp = "enhanced_shift_logic"
  /\ \/ Get(fnCtx.context, "requested_staff", <<>>) # <<>>
     \/ Get(fnCtx.context, "requested_departments", <<>>) # <<>>
  /\ fnOut.matches # <<>>

\* C17: every name resolution applies the steps in order, first hit winning:
\* an entity whose name equals the candidate case-insensitively is returned
\* even when an earlier entity matches by substring only; otherwise the first
\* entity that substring-matches in either direction; otherwise null. Both
\* find_staff_by_name and the resolutions in enhanced_shift_logic do so.
C17_ExactMatchFirst ==
  /\ fnOp = "find_staff_by_name" =>
       fnOut.found = InOrderLookup(fnCtx.name, fnCtx.staff_data)
  /\ (CrossProduct /\ Get(fnCtx.context, "requested_departments", <<>>) = <<>>) =>
       /\ {fnOut.matches[k].staffId : k \in 1..Len(fnOut.matches)}
            = LookedUpIds(Get(fnCtx.context, "requested_staff", <<>>), fnCtx.staff_data)
       /\ {fnOut.matches[k].projectId : k \in 1..Len(fnOut.matches)}
            = LookedUpIds(Get(fnCtx.context, "requested_projects", <<>>),
                          fnCtx.project_data)

\* C18: when staff and projects resolve, exactly one Match is emitted for
\* each pair of (set of resolved staff ids) x (set of resolved project ids)
\* and no other, so that no (staffId, projectId) pair appears twice even when
\* two requested names resolve to the same entity.
C18_OneMatchPerPair ==
  CrossProduct =>
    LET m == fnOut.matches
        staff == {m[k].staffId : k \in 1..Len(m)}
        projects == {m[k].projectId : k \in 1..Len(m)}
    IN /\ \A sid \in staff, pid \in projects :
            Cardinality({k \in 1..Len(m) :
                           m[k].staffId = sid /\ m[k].projectId = pid}) = 1
       /\ Len(m) = Cardinality(staff) * Cardinality(projects)

\* C19: every emitted Match carries the per-project hours parsed from the
\* query for its project whenever such a value was parsed, also when the
\* backend's name of the project differs from the name typed in the query,
\* and the single requested-hours value only when no per-project value
\* exists for that project.
C19_PerProjectHours ==
  CrossProduct =>
    LET per == QueryParse[Get(fnCtx.context, "query", "")].project_hours
        requested_hours == Get(fnCtx.context, "requested_hours", 8)
        TypedFor(pid) ==
          {t \in DOMAIN per :
             /\ InOrderLookup(t, fnCtx.project_data) # <<>>
             /\ InOrderLookup(t, fnCtx.project_data)[1].id = pid}
    IN \A k \in 1..Len(fnOut.matches) :
         LET match == fnOut.matches[k]
         IN IF TypedFor(match.projectId) # {}
              THEN \E t \in TypedFor(match.projectId) :
                     match.assignedHours = per[t]
              ELSE match.assignedHours = requested_hours

\* the request's body was a date and nothing else
DateOnly(r) ==
  /\ payload[r].via = "orchestrate"
  /\ payload[r] = [via |-> "orchestrate"] @@ OrchestrationInput([date |-> D1])

\* C21: a POST /orchestrate request that carries only a date and no mode is
\* served by the stage pipeline: it never waits for the crew, and its
\* response holds availability, matches, notifications, resolvedMatches and
\* auditLog, with one match per availability entry of the date whose
\* assignedHours is the entry's availableHours.
C21_DateOnlyTakesPipeline ==
  \A r \in Req :
    DateOnly(r) =>
      /\ pc[r] # "crew_wait"
      /\ pc[r] = "done" =>
           /\ RequiredKeys \subseteq DOMAIN response[r].body
           /\ response[r].body.availability = AvailabilityData(D1)
           /\ Len(response[r].body.matches) = Len(AvailabilityData(D1))
           /\ \A i \in 1..Len(AvailabilityData(D1)) :
                response[r].body.matches[i].assignedHours
                  = AvailabilityData(D1)[i].availableHours

\* C22: ConflictResolve is idempotent: applied to its own output, taken as
\* the new matches, it yields the same list as the first application.
C22_ConflictResolveIdempotent ==
  fnOp = "conflict_resolver_logic twice" =>
    fnOut.resolvedMatches = fnOut.first

\* the first application dropped a match and kept another
C22_Witness ==
  /\ fnOp = "conflict_resolver_logic twice"
  /\ Len(fnOut.first) > 0
  /\ Len(fnOut.first) < Len(fnCtx.matches)

\* the calendar: the days of a month of a year
IsLeap(year) == year % 4 = 0 /\ (year % 100 # 0 \/ year % 400 = 0)
DaysIn(month, year) ==
  IF month = 2 THEN (IF IsLeap(year) THEN 29 ELSE 28)
  ELSE IF month \in {4, 6, 9, 11} THEN 30
  ELSE 31

\* C23: the Command Parser never returns a date that is not a real calendar
\* date: for the day number and month name found in the text, the date stays
\* null when the month/day combination is invalid (day 31 in a 30-day month,
\* day 30 or 31 in February), and is "<year>-<MM>-<DD>" otherwise, with the
\* current year when no year is given.
C23_OnlyCalendarDates ==
  fnOp = "parse_scheduling_command" =>
    LET month == month_names[fnCtx.month]
        year == IF fnCtx.year = <<>> THEN CurrentYear ELSE fnCtx.year[1]
    IN IF 1 <= fnCtx.day /\ fnCtx.day <= DaysIn(month, year)
         THEN fnOut.date = <<year>> \o TwoDigits(month) \o TwoDigits(fnCtx.day)
         ELSE fnOut.date = <<>>

\* the Context of the request carries a date
HasDate(r) ==
  /\ "date" \in DOMAIN context[r]
  /\ context[r].date \notin {NoneVal, ""}

\* the run of the request was aborted by the availability call
AvailabilityFailed(r) ==
  /\ pc[r] = "failed"
  /\ "availability" \notin DOMAIN context[r]

\* C24: the Availability stage gives an empty list without calling the
\* backend exactly when the Context has no date; with a date, a failing
\* backend call is never turned into an empty list: the run aborts, no later
\* stage runs, the global audit log is left as it was, no Assignment Writer
\* is scheduled and the response is a 5xx error (an exception for a caller
\* of run).
C24_AvailabilityFailureAborts ==
  /\ [][\A r \in Req :
          (pc[r] = "availability" /\ pc'[r] # "availability") =>
            IF HasDate(r)
              THEN pc'[r] = "availability_wait" /\ context'[r] = context[r]
              ELSE pc'[r] = "shift" /\ context'[r].availability = <<>>]_vars
  /\ [][\A r \in Req :
          (pc[r] = "availability_wait" /\ pc'[r] = "failed") =>
            /\ context'[r] = context[r]
            /\ auditLog' = auditLog
            /\ response'[r].status =
                 (IF payload[r].via = "run" THEN "raised" ELSE "500")]_vars
  /\ [][\A r \in Req :
          AvailabilityFailed(r) =>
            /\ pc'[r] = "failed"
            /\ context'[r] = context[r]
            /\ response'[r] = response[r]]_vars
  /\ [](\A r \in Req :
          AvailabilityFailed(r) =>
            /\ ~scheduled[r]
            /\ wpc[r] = "none"
            /\ calls[r] = <<>>
            /\ {"matches", "notifications", "resolvedMatches", "auditLog"}
                 \cap DOMAIN context[r] = {})

\* a command request was aborted by the availability call while another
\* run had been audited
C24_Witness ==
  \E r \in Req :
    /\ payload[r].via = "orchestrate"
    /\ payload[r].mode = "command"
    /\ AvailabilityFailed(r)
    /\ response[r].status = "500"
    /\ auditLog # <<>>

\* the Context carries a staff or a department constraint
Constrained(ctx) ==
  \/ Get(ctx, "requested_staff", <<>>) # <<>>
  \/ Get(ctx, "requested_departments", <<>>) # <<>>

\* C25: without a staff and a department constraint, enhanced ShiftMatch
\* gives exactly the matches of baseline ShiftMatch on the same Context, for
\* every availability and every date (absent, empty or set); with such a
\* constraint and no staff or no project resolving, it emits no Match.
C25_FallbackIsBaseline ==
  fnOp = "enhanced_shift_logic" =>
    LET ctx == fnCtx.context
        staff_ids ==
          AddDepartments(
            ResolveNames(Get(ctx, "requested_staff", <<>>),
                         fnCtx.staff_data),
            Get(ctx, "requested_departments", <<>>), fnCtx.staff_data)
        project_ids ==
          ResolveNames(Get(ctx, "requested_projects", <<>>),
                       fnCtx.project_data)
    IN /\ ~Constrained(ctx) => fnOut = shift_logic(ctx)
       /\ (Constrained(ctx) /\ (staff_ids = <<>> \/ project_ids = <<>>))
            => fnOut.matches = <<>>

\* the runs that completed their AuditLog stage
Audited == {r \in Req : "auditLog" \in DOMAIN context[r]}

\* C26: under any interleaving of the requests on the event loop, each run
\* that reaches the AuditLog stage adds exactly one entry to the global audit
\* log: none is lost or added twice, the length of the log is the number of
\* runs that completed AuditLog, and the auditLog a run returns has, when it
\* returns, as many entries as runs completed AuditLog so far.
C26_OneEntryPerRun ==
  /\ [](Len(auditLog) = Cardinality(Audited))
  /\ [][\A r \in Req :
          (pc[r] = "audit" /\ pc'[r] # "audit") =>
            /\ r \notin Audited
            /\ Len(auditLog') = Len(auditLog) + 1
            /\ SubSeq(auditLog', 1, Len(auditLog)) = auditLog
            /\ auditLog'[Len(auditLog')].timestamp = clock]_vars
  /\ [][auditLog' # auditLog =>
          \E r \in Req : pc[r] = "audit" /\ pc'[r] # "audit"]_vars
  /\ [][\A r \in Req :
          (pc[r] = "return" /\ pc'[r] = "done") =>
            Len(response'[r].body.auditLog) = Cardinality(Audited)]_vars

\* a run returns after another was audited: the log it returns holds two
\* entries
C26_Witness ==
  \E r, q \in Req :
    /\ r # q
    /\ pc[r] = "done"
    /\ response[r].status \in {"200", "returned"}
    /\ Len(response[r].body.auditLog) = 2
    /\ q \in Audited

\* the requests of a session that went through the memory-append step
Appended(session) ==
  {r \in Req : /\ payload[r].via = "orchestrate"
               /\ Route(payload[r]) = "crew"
               /\ SessionOf(payload[r]) = session
               /\ pc[r] = "done"}

\* C27: under any interleaving of concurrent ask requests of one session
\* that reach the memory-append step, no stored turn is lost: after k such
\* requests the session holds exactly k more turns, and a request of one
\* session never changes the turns of another.
C27_NoTurnLost ==
  /\ [](\A s \in Sessions : Len(ask_memory[s]) = Cardinality(Appended(s)))
  /\ [][\A s \in Sessions :
          /\ Len(ask_memory'[s]) >= Len(ask_memory[s])
          /\ SubSeq(ask_memory'[s], 1, Len(ask_memory[s])) = ask_memory[s]]_vars
  /\ [][\A r \in Req :
          (pc[r] = "crew_wait" /\ pc'[r] = "done") =>
            LET mine == SessionOf(payload[r])
            IN /\ Len(ask_memory'[mine]) = Len(ask_memory[mine]) + 1
               /\ ask_memory'[mine][Len(ask_memory'[mine])].query
                    = Get(payload[r], "query", NoneVal)
               /\ \A s \in Sessions \ {mine} :
                    ask_memory'[s] = ask_memory[s]]_vars

\* two requests of one session, each started before the other's turn was
\* saved, both saved theirs
C27_Witness ==
  \E r, q \in Req :
    /\ r # q
    /\ r \in Appended("default")
    /\ q \in Appended("default")
    /\ context[r].history = <<>>
    /\ context[q].history = <<>>
    /\ Len(ask_memory["default"]) = 2

\* the response of the request is an error: an object with an error field,
\* or an HTTP 500
ErrorObject(r) ==
  \/ response[r].status = "500"
  \/ response[r].status = "200" /\ "error" \in DOMAIN response[r].body

\* all the checks of the simple orchestrator held for the request
SimpleChecksHeld(r) ==
  /\ "parsed" \in DOMAIN context[r]
  /\ LET parsed == context[r].parsed
     IN /\ parsed.staffNames # <<>>
        /\ parsed.projectNames # <<>>
        /\ parsed.date # NoneVal
        /\ "staff_member" \in DOMAIN context[r]
        /\ \E i \in 1..Len(parsed.staffNames) :
             NameMatches(parsed.staffNames[i], context[r].staff_member.name)
        /\ \E i \in 1..Len(parsed.projectNames) :
             NameMatches(parsed.projectNames[i], context[r].project.name)
        /\ \E i \in 1..Len(AvailabilityData(parsed.date)) :
             LET avail == AvailabilityData(parsed.date)[i]
             IN /\ avail.staffId = context[r].staff_member.id
                /\ avail.availableHours >= parsed.hours

\* C28: in the simple orchestrator, a request in mode "agent" issues at most
\* one create-assignment call, and only after the parse yielded a staff
\* name, a project name and a date, a staff member resolved, a project
\* resolved, an availability entry of that staff on that date was found and
\* its availableHours >= the requested hours; in every other case the
\* response is an error object and no create-assignment call is issued.
C28_SimpleCreatesOnlyAfterChecks ==
  \A r \in Req :
    (payload[r].via = "simple" /\ payload[r].mode = "agent") =>
      /\ Len(calls[r]) <= 1
      /\ calls[r] # <<>> =>
           /\ SimpleChecksHeld(r)
           /\ calls[r][1].body =
                [staffId |-> context[r].staff_member.id,
                 projectId |-> context[r].project.id,
                 date |-> context[r].parsed.date,
                 hours |-> context[r].parsed.hours]
      /\ (pc[r] \in {"done", "failed"} /\ calls[r] = <<>>) => ErrorObject(r)

\* C29: the Assignment Writer never issues a create-assignment call for a
\* request whose mode is not "command": ask, cron and unrecognized modes
\* never schedule process_assignments, on the crew branch or on the stage
\* pipeline branch, whatever matches their result holds.
C29_OnlyCommandSchedules ==
  \A r \in Req :
    (payload[r].via = "orchestrate" /\ payload[r].mode # "command") =>
      /\ ~scheduled[r]
      /\ wpc[r] = "none"
      /\ calls[r] = <<>>

\* an ask request was answered by the crew with a result that holds
\* matches, and a request of another mode than ask and command was answered
\* by the pipeline with matches
C29_Witness ==
  \E r, q \in Req :
    /\ payload[r].via = "orchestrate" /\ payload[r].mode = "ask"
    /\ pc[r] = "done"
    /\ response[r].body.type = "json"
    /\ "matches" \in DOMAIN response[r].body.content.json
    /\ payload[q].via = "orchestrate" /\ payload[q].mode \in {"cron", "other"}
    /\ pc[q] = "done"
    /\ response[q].body.matches # <<>>

\* the request ran the enhanced stage pipeline to its end
Completed(r) ==
  /\ payload[r].via = "orchestrate"
  /\ Route(payload[r]) = "pipeline"
  /\ pc[r] \in {"return", "done", "failed"}
  /\ \/ "auditLog" \in DOMAIN context[r]
     \/ pc[r] \in {"return", "done"}

\* C30: every Context a completed run of the enhanced stage pipeline returns
\* satisfies the Output Validator: it holds availability, matches,
\* notifications, resolvedMatches and auditLog and none of the pass-through
\* marker keys, every element of resolvedMatches has staffId and
\* assignedHours, and the validation after the run never raises.
C30_CompletedRunIsValid ==
  \A r \in Req :
    Completed(r) =>
      /\ RequiredKeys \subseteq DOMAIN context[r]
      /\ PassKeys \cap DOMAIN context[r] = {}
      /\ \A i \in 1..Len(context[r].resolvedMatches) :
           {"staffId", "assignedHours"}
             \subseteq DOMAIN context[r].resolvedMatches[i]
      /\ validate_pipeline_output(context[r])
      /\ ~ValidatorOutcome(context[r]).raised
      /\ pc[r] # "failed"
      /\ pc[r] = "done" => response[r].status = "200"

\* two completed runs were answered, one with the matches of the requested
\* staff and projects, one with the matches of the availability
C30_Witness ==
  \E r, q \in Req :
    /\ Completed(r) /\ pc[r] = "done"
    /\ Completed(q) /\ pc[q] = "done"
    /\ context[r].resolvedMatches # <<>>
    /\ "projectId" \in DOMAIN context[r].resolvedMatches[1]
    /\ context[q].resolvedMatches # <<>>
    /\ "projectId" \notin DOMAIN context[q].resolvedMatches[1]
====
